---- MODULE Spec2Model ----
(***************************************************************************)
(* Model of the two Prisma model-usage analyzers.                           *)
(* ComprehensivePrismaAnalyzer (src/unnamed/part_000): schema parsing,     *)
(* text normalisation, the seven detector tiers, the per-file and          *)
(* per-model aggregation, the five-level risk rule, the relationship       *)
(* audit of the report, the export and the exit status.                    *)
(* EnhancedPrismaUsageAnalyzer (src/scripts/analyze-prisma-usage.js.js):   *)
(* comment removal, the five pattern groups and the used / suspicious /    *)
(* unused classification.                                                  *)
(*                                                                         *)
(* File text is a sequence of atoms.  An atom <<kind, model>> stands for a *)
(* fixed piece of text; atoms are written to the file separated by one     *)
(* blank.  For the model name Widget the atoms read:                       *)
(*   nl  "\n"      sp  " "       lc  "//"      hash "#"                    *)
(*   bo  "/*"      bc  "*/"      ho  "<!--"    hc   "-->"                  *)
(*   sq  "'"       dq  '"'       bt  "`"                                   *)
(*   import  "import {"    from  "} from"    path  "./types"               *)
(*   seed    "seed"        relation  "@relation"                           *)
(*   route   "router.get("   fetch  "fetch("                               *)
(*   name     "Widget"                                                     *)
(*   dbcall   "prisma.widget.findMany("                                    *)
(*   reqparam "req.body.widgetId"                                          *)
(*   typeann  ": Widget[];"                                                *)
(*   svccall  "svc.getWidgets()"                                           *)
(*   props    "WidgetProps"                                                *)
(*   state    "WidgetState"                                                *)
(*   apipath  "/api/widgets"                                               *)
(*   validate "validateWidget"                                             *)
(*   head     "Wid"        tail  "get"                                      *)
(* and the atom join stands for no text at all: the atoms on both sides of *)
(* a run of join atoms are written without a blank between them.          *)
(* A file path is a sequence of pieces: a piece that starts with "-" goes  *)
(* on with the directory name before it ("app" "-api" is "app-api"), any   *)
(* other piece is the next path segment ("app" "src/a.ts" is               *)
(* "app/src/a.ts").                                                        *)
(* Every regular expression of the source is modelled by the matches it    *)
(* has on such text.                                                       *)
(***************************************************************************)
EXTENDS Integers, Sequences, FiniteSets, TLC

\* ------------------------------------------------------------------ bounds
MaxLen == 3              \* atoms of free text over all files of the disk
MaxRel == 2              \* field lines over all model blocks of the schema

\* ------------------------------------------------------------------ atoms
NL == <<"nl", "">>
SP == <<"sp", "">>
LC == <<"lc", "">>
HASH == <<"hash", "">>
BO == <<"bo", "">>
BC == <<"bc", "">>
HO == <<"ho", "">>
HC == <<"hc", "">>
SQ == <<"sq", "">>
DQ == <<"dq", "">>
BT == <<"bt", "">>
IMPORT == <<"import", "">>
FROM == <<"from", "">>
PATH == <<"path", "">>
SEED == <<"seed", "">>
RELATION == <<"relation", "">>
ROUTE == <<"route", "">>
JOIN == <<"join", "">>
FETCH == <<"fetch", "">>

\* the three quote characters, and the atoms that are white space
Quotes == {SQ, DQ, BT}
WhiteSpace == {NL, SP}

\* kinds of atom whose text contains the model name (in either case)
NameKinds ==
  {"name", "dbcall", "reqparam", "typeann", "svccall", "props", "state", "apipath",
   "validate"}

\* kinds of atom whose text contains the model name as it is declared
VerbatimKinds == {"name", "typeann", "svccall", "props", "state", "validate"}

\* atoms whose text contains the name of model m, compared case-insensitively
Mentions(m) == {<<k, m>> : k \in NameKinds}

\* atoms whose text contains the name of model m, compared case-sensitively
MentionsVerbatim(m) == {<<k, m>> : k \in VerbatimKinds}

\* atoms whose text contains a closing parenthesis
HasCloseParen(a) == a[1] = "svccall"

\* ------------------------------------------------------- sequence helpers
RECURSIVE SumSeq(_)
SumSeq(s) == IF s = <<>> THEN 0 ELSE Head(s) + SumSeq(Tail(s))

RECURSIVE Flatten(_)
Flatten(ss) == IF ss = <<>> THEN <<>> ELSE Head(ss) \o Flatten(Tail(ss))

\* position of the first atom of set S at or after position i, 0 if none
RECURSIVE FirstAt(_, _, _)
FirstAt(s, i, S) ==
  IF i > Len(s) THEN 0
  ELSE IF s[i] \in S THEN i
  ELSE FirstAt(s, i + 1, S)

\* ------------------------------------------------------- text normaliser
\* s.replace(/open[\s\S]*?close/g, " "): each leftmost region from an opening
\* atom to the first closing atom after it becomes one blank
RECURSIVE ReplacePaired(_, _, _, _, _)
ReplacePaired(s, i, open, close, filler) ==
  IF i > Len(s) THEN <<>>
  ELSE IF s[i] = open /\ FirstAt(s, i + 1, {close}) # 0
       THEN filler \o ReplacePaired(s, FirstAt(s, i + 1, {close}) + 1, open, close, filler)
       ELSE <<s[i]>> \o ReplacePaired(s, i + 1, open, close, filler)

\* s.replace(/marker.*$/gm, " "): from the marker to the end of its line
RECURSIVE ReplaceToEol(_, _, _)
ReplaceToEol(s, i, marker) ==
  IF i > Len(s) THEN <<>>
  ELSE IF s[i] = marker
       THEN <<SP>> \o (IF FirstAt(s, i + 1, {NL}) = 0 THEN <<>>
                       ELSE ReplaceToEol(s, FirstAt(s, i + 1, {NL}), marker))
       ELSE <<s[i]>> \o ReplaceToEol(s, i + 1, marker)

\* (variant: the chain without the line-comment replacement)
cleanContentNoLineComments(content) ==
  LET p1 == ReplacePaired(content, 1, BO, BC, <<SP>>)
      p3 == ReplacePaired(p1, 1, HO, HC, <<SP>>)
      p4 == ReplaceToEol(p3, 1, HASH)
      p5 == ReplacePaired(p4, 1, SQ, SQ, <<SP>>)
      p6 == ReplacePaired(p5, 1, DQ, DQ, <<SP>>)
  IN  ReplacePaired(p6, 1, BT, BT, <<SP>>)

\* the chain of seven replacements of getFileContent
cleanContent(content) ==
  LET p1 == ReplacePaired(content, 1, BO, BC, <<SP>>)
      p2 == ReplaceToEol(p1, 1, LC)
      p3 == ReplacePaired(p2, 1, HO, HC, <<SP>>)
      p4 == ReplaceToEol(p3, 1, HASH)
      p5 == ReplacePaired(p4, 1, SQ, SQ, <<SP>>)
      p6 == ReplacePaired(p5, 1, DQ, DQ, <<SP>>)
  IN  ReplacePaired(p6, 1, BT, BT, <<SP>>)

\* ------------------------------------------------------- pattern matching
\* the text as the regular expressions see it: the two halves of a model
\* name with nothing between them are the name
RECURSIVE Fused(_)
Fused(txt) ==
  IF txt = << >> THEN << >>
  ELSE LET k == FirstAt(txt, 2, {txt[i] : i \in 1..Len(txt)} \ {JOIN})
       IN  IF /\ Head(txt)[1] = "head"
              /\ k > 2
              /\ txt[k] = <<"tail", Head(txt)[2]>>
           THEN << <<"name", Head(txt)[2]>> >> \o Fused(SubSeq(txt, k + 1, Len(txt)))
           ELSE << Head(txt) >> \o Fused(Tail(txt))

\* number of matches of a pattern that matches inside single atoms
CountAtoms(txt, S) == Cardinality({i \in DOMAIN txt : txt[i] \in S})

\* index of the line of position i
LineOf(txt, i) == Cardinality({j \in 1..(i - 1) : txt[j] = NL})

\* number of matches of /start.*end/g: "." does not cross a line break and
\* ".*" is greedy, so a line holds at most one match
CountSpans(txt, Starts, Ends) ==
  Cardinality({LineOf(txt, i) : i \in {i \in DOMAIN txt :
      /\ txt[i] \in Starts
      /\ \E j \in (i + 1)..Len(txt) :
           /\ txt[j] \in Ends
           /\ \A k \in i..j : txt[k] # NL}})

\* the closing quote of the match of call( X quote ..name.. quote that starts
\* at the call atom i, 0 if there is none.  Between the two quotes there is
\* no quote and an atom of Names.  X is white space when direct, and anything
\* without a closing parenthesis otherwise; X is greedy, so the last opening
\* quote it can reach decides.  j is the position looked at, best the closing
\* quote found so far.
RECURSIVE QuotedEnd(_, _, _, _, _)
QuotedEnd(txt, j, Names, direct, best) ==
  IF j > Len(txt) THEN best
  ELSE IF txt[j] \in Quotes
       THEN LET k == FirstAt(txt, j + 1, Quotes)
                found == IF k # 0 /\ (\E x \in (j + 1)..(k - 1) : txt[x] \in Names)
                         THEN k ELSE best
            IN  IF direct THEN found
                ELSE QuotedEnd(txt, j + 1, Names, direct, found)
       ELSE IF direct /\ txt[j] \notin WhiteSpace THEN best
       ELSE IF ~direct /\ HasCloseParen(txt[j]) THEN best
       ELSE QuotedEnd(txt, j + 1, Names, direct, best)

\* number of matches of /call\s*\( X quote ..name.. quote/g from position i on
RECURSIVE CountQuoted(_, _, _, _, _)
CountQuoted(txt, i, Starts, Names, direct) ==
  IF i > Len(txt) THEN 0
  ELSE LET e == IF txt[i] \in Starts
                THEN QuotedEnd(txt, i + 1, Names, direct, 0) ELSE 0
       IN  IF e # 0 THEN 1 + CountQuoted(txt, e + 1, Starts, Names, direct)
           ELSE CountQuoted(txt, i + 1, Starts, Names, direct)

\* ------------------------------------------------------- detector tiers
\* Each tier operator gives, pattern by pattern in source order, the number
\* of matches of the pattern in txt for model name m.

\* 1. prisma.<m>.<verb>( in either case | verbatim; tx.<m>.<verb> twice;
\*    $queryRaw.*m; $executeRaw.*m; include: { ..m.. } twice
\* (variant: only the patterns with the verbatim name)
prismaPatternsVerbatimOnly(m, txt) ==
  << 0, CountAtoms(txt, {<<"dbcallV", m>>}), 0, 0, 0, 0, 0, 0 >>
prismaPatterns(m, txt) ==
  << CountAtoms(txt, {<<"dbcall", m>>}), 0, 0, 0, 0, 0, 0, 0 >>

\* 2. .get|post|..( with a quoted path that holds the name in either case |
\*    verbatim; req.params|body|query.<m> in either case | verbatim; quoted
\*    /api/ path; quoted / path (the quote is followed by the slash, which
\*    atoms set apart by a blank never are); axios|fetch( with a quoted URL;
\*    get|post|..( with a quoted URL
apiPatterns(m, txt) ==
  << CountQuoted(txt, 1, {ROUTE}, Mentions(m), FALSE),
     CountQuoted(txt, 1, {ROUTE}, MentionsVerbatim(m), FALSE),
     CountAtoms(txt, {<<"reqparam", m>>}),
     0, 0, 0,
     CountQuoted(txt, 1, {FETCH}, Mentions(m), FALSE),
     CountQuoted(txt, 1, {ROUTE}, Mentions(m), FALSE) >>

\* 3. interface ..m..{ ; type ..m.. = ; ": m" before = , ) } ; ": m[]" ;
\*    < ..m.. > ; const|let|var x: m
typePatterns(m, txt) ==
  << 0, 0, 0, CountAtoms(txt, {<<"typeann", m>>}), 0, 0 >>

\* 4. *Service.*m ; *Repository.*m ; *API.*m ; function|const|let ..m..
\*    (either case | verbatim) ; .get|create|..<M> ; .get|create|..<m> (both
\*    case-insensitive) ; <m>Slice twice ; set|update|delete|fetch|create<M>
businessLogicPatterns(m, txt) ==
  << 0, 0, 0, 0, 0,
     CountAtoms(txt, {<<"svccall", m>>}), CountAtoms(txt, {<<"svccall", m>>}),
     0, 0, 0 >>

\* 5. use<M> ; use..M.. ; <M>Props ; <M>State ; <M>Data ; state.<m> twice ;
\*    useSelector.*m ; <M>Form ; validate<M> ; navigate.*m ; router.*m
\* (variant: <M>Props and <M>State as one pattern, <M>(Props|State))
clientPatternsOneNamingPattern(m, txt) ==
  << 0, 0,
     CountAtoms(txt, {<<"props", m>>, <<"state", m>>}),
     0, 0, 0, 0, 0, 0,
     CountAtoms(txt, {<<"validate", m>>}),
     0,
     CountSpans(txt, {ROUTE}, Mentions(m)) >>
clientPatterns(m, txt) ==
  << 0, 0,
     CountAtoms(txt, {<<"props", m>>}),
     CountAtoms(txt, {<<"state", m>>}),
     0, 0, 0, 0, 0,
     CountAtoms(txt, {<<"validate", m>>}),
     0,
     CountSpans(txt, {ROUTE}, Mentions(m)) >>

\* 6. @relation.*m ; references.*m ; CREATE|ALTER|DROP TABLE.*m ;
\*    m.*seed ; seed.*m    (all case-insensitive)
configPatterns(m, txt) ==
  << CountSpans(txt, {RELATION}, Mentions(m)), 0, 0, 0, 0,
     CountSpans(txt, Mentions(m), {SEED}),
     CountSpans(txt, {SEED}, Mentions(m)) >>

\* 7. import.*m ; from.*m (case-insensitive) ; quoted name in either case |
\*    verbatim ; \bM\b
\* (variant: the patterns built from the lower-cased name without the i flag)
weakPatternsLowerCased(m, txt) ==
  << CountSpans(txt, {IMPORT}, {<<"lname", m>>}),
     CountSpans(txt, {FROM}, {<<"lname", m>>}),
     0, 0,
     CountAtoms(txt, {<<"lname", m>>}) >>
weakPatterns(m, txt) ==
  << CountSpans(txt, {IMPORT}, Mentions(m)),
     CountSpans(txt, {FROM}, Mentions(m)),
     0, 0,
     CountAtoms(txt, {<<"name", m>>, <<"typeann", m>>}) >>

\* ------------------------------------------------------- per-file analysis
Null == [null |-> TRUE]

VARIABLES
  serverPath,    \* this.serverPath, as the constructor resolved it
  clientPath     \* this.clientPath, as the constructor resolved it

roots == <<serverPath, clientPath>>

\* String.prototype.startsWith on paths
startsWith(s, prefix) ==
  Len(prefix) <= Len(s) /\ SubSeq(s, 1, Len(prefix)) = prefix

\* filePath.startsWith(this.clientPath)
isClientFile(filePath) == startsWith(filePath, clientPath)

\* the tiers that apply to the file, in source order, with the weight each
\* matching pattern adds and the text the tier is matched against
TierResults(modelName, filePath, content, clean) ==
  (IF ~isClientFile(filePath)
   THEN << [type |-> "DATABASE_OPERATION", weight |-> 40,
            counts |-> prismaPatterns(modelName, Fused(clean))] >>
   ELSE << >>)
  \o << [type |-> "API_ENDPOINT", weight |-> 35,
         counts |-> apiPatterns(modelName, Fused(clean))],
        [type |-> "TYPE_DEFINITION", weight |-> 25,
         counts |-> typePatterns(modelName, Fused(clean))],
        [type |-> "BUSINESS_LOGIC", weight |-> 20,
         counts |-> businessLogicPatterns(modelName, Fused(clean))] >>
  \o (IF isClientFile(filePath)
      THEN << [type |-> "CLIENT_OPERATION", weight |-> 20,
               counts |-> clientPatterns(modelName, Fused(clean))] >>
      ELSE << >>)
  \o << [type |-> "SCHEMA_REFERENCE", weight |-> 15,
         counts |-> configPatterns(modelName, Fused(content))],
        [type |-> "WEAK_INDICATOR", weight |-> 2,
         counts |-> weakPatterns(modelName, Fused(clean))] >>

\* patterns.forEach: one detail per pattern that has matches
TierDetails(t) ==
  SelectSeq([i \in 1..Len(t.counts) |->
               [type |-> t.type, pattern |-> i, matches |-> t.counts[i]]],
            LAMBDA d : d.matches > 0)

\* (variant: the weight once for a tier, however many patterns matched)
TierConfidenceOncePerTier(t) ==
  IF Len(TierDetails(t)) > 0 THEN t.weight ELSE 0

\* confidence += weight, once for each pattern that has matches
TierConfidence(t) == t.weight * Len(TierDetails(t))

\* (variant: the record is returned even when nothing matched)
analyzeModelUsageNeverNull(modelName, filePath, pair) ==
  LET tiers == TierResults(modelName, filePath, pair.raw, pair.clean)
      details == Flatten([i \in 1..Len(tiers) |-> TierDetails(tiers[i])])
  IN  [file |-> filePath,
       isClientFile |-> isClientFile(filePath),
       usageTypes |-> {details[i].type : i \in 1..Len(details)},
       usageCount |-> SumSeq([i \in 1..Len(details) |-> details[i].matches]),
       confidence |-> SumSeq([i \in 1..Len(tiers) |-> TierConfidence(tiers[i])]),
       details |-> details]

\* analyzeModelUsage on the (raw, clean) pair getFileContent returned
analyzeModelUsage(modelName, filePath, pair) ==
  LET tiers == TierResults(modelName, filePath, pair.raw, pair.clean)
      details == Flatten([i \in 1..Len(tiers) |-> TierDetails(tiers[i])])
      usageAnalysis ==
        [file |-> filePath,
         isClientFile |-> isClientFile(filePath),
         usageTypes |-> {details[i].type : i \in 1..Len(details)},
         usageCount |-> SumSeq([i \in 1..Len(details) |-> details[i].matches]),
         confidence |-> SumSeq([i \in 1..Len(tiers) |-> TierConfidence(tiers[i])]),
         details |-> details]
  IN  IF usageAnalysis.usageCount > 0 THEN usageAnalysis ELSE Null

\* ------------------------------------------- enhanced analyzer, per file
\* s.replace(/marker.*$/gm, ""): from the marker to the end of its line
RECURSIVE DeleteToEol(_, _, _)
DeleteToEol(s, i, marker) ==
  IF i > Len(s) THEN << >>
  ELSE IF s[i] = marker
       THEN (IF FirstAt(s, i + 1, {NL}) = 0 THEN << >>
             ELSE DeleteToEol(s, FirstAt(s, i + 1, {NL}), marker))
       ELSE <<s[i]>> \o DeleteToEol(s, i + 1, marker)

\* the chain of four replacements of analyzeModelUsageInFile: comments are
\* removed, string literals stay
contentWithoutComments(content) ==
  LET p1 == ReplacePaired(content, 1, BO, BC, << >>)
      p2 == DeleteToEol(p1, 1, LC)
      p3 == ReplacePaired(p2, 1, HO, HC, << >>)
  IN  DeleteToEol(p3, 1, HASH)

\* Each group operator gives, pattern by pattern in source order, the number
\* of matches of the pattern in txt for model name m.

\* 1. prisma.<m>.<verb>( in either case | verbatim; $queryRaw.*m;
\*    $executeRaw.*m; .<m>.<verb> in either case
dbOperations(m, txt) ==
  << CountAtoms(txt, {<<"dbcall", m>>}), 0, 0, 0,
     CountAtoms(txt, {<<"dbcall", m>>}) >>

\* 2. .get|post|..( directly followed by a quoted path that holds the name in
\*    either case | verbatim; req.params.<m>; req.body.<m>; axios|fetch( with
\*    a quoted URL; get|post|..( with a quoted URL; quoted /api/ path; quoted
\*    / path; <M>: { .. resolver; Query.<m>; Mutation.<m>
apiPatternsInFile(m, txt) ==
  << CountQuoted(txt, 1, {ROUTE}, Mentions(m), TRUE),
     CountQuoted(txt, 1, {ROUTE}, MentionsVerbatim(m), TRUE),
     0,
     CountAtoms(txt, {<<"reqparam", m>>}),
     CountQuoted(txt, 1, {FETCH}, Mentions(m), FALSE),
     CountQuoted(txt, 1, {ROUTE}, Mentions(m), FALSE),
     0, 0, 0, 0, 0 >>

\* 3. <m>Slice twice; set|update|delete|fetch|create<M> (five patterns);
\*    state.<m> twice; useSelector.*m twice; <M>Props; <M>State; <M>Data;
\*    get|create|update|delete|fetch<M>; <m>Service twice; <M>Form;
\*    validate<M>; use<M>; transform|serialize|deserialize<M>
clientPatternsInFile(m, txt) ==
  << 0, 0, 0, 0, 0, 0, 0, 0, 0, 0, 0,
     CountAtoms(txt, {<<"props", m>>}),
     CountAtoms(txt, {<<"state", m>>}),
     0,
     CountAtoms(txt, {<<"svccall", m>>}),
     0, 0, 0,
     CountAtoms(txt, {<<"validate", m>>}),
     0, 0, 0, 0 >>

\* 4. ": M" before = , ) } ; ": M []" ; const|let|var x: M ; *Service.*m ;
\*    *Repository.*m ; validate|transform|serialize<M>
businessLogicPatternsInFile(m, txt) ==
  << 0, CountAtoms(txt, {<<"typeann", m>>}), 0, 0, 0,
     CountAtoms(txt, {<<"validate", m>>}), 0, 0 >>

\* 5. import.*M ; from.*M (case-insensitive) ; quoted name in either case |
\*    verbatim ; \bM\b
weakPatternsInFile(m, txt) ==
  << CountSpans(txt, {IMPORT}, Mentions(m)),
     CountSpans(txt, {FROM}, Mentions(m)),
     0, 0,
     CountAtoms(txt, {<<"name", m>>, <<"typeann", m>>}) >>

\* the groups that apply to the file, in source order; minReal is the number
\* of matches of one pattern that sets isRealUsage (0: the group never does)
GroupResults(modelName, filePath, txt) ==
  (IF ~isClientFile(filePath)
   THEN << [type |-> "DATABASE_OPERATION", minReal |-> 1,
            counts |-> dbOperations(modelName, Fused(txt))] >>
   ELSE << >>)
  \o << [type |-> "API_ENDPOINT", minReal |-> 1,
         counts |-> apiPatternsInFile(modelName, Fused(txt))] >>
  \o (IF isClientFile(filePath)
      THEN << [type |-> "CLIENT_OPERATION", minReal |-> 1,
               counts |-> clientPatternsInFile(modelName, Fused(txt))] >>
      ELSE << >>)
  \o << [type |-> "BUSINESS_LOGIC", minReal |-> 2,
         counts |-> businessLogicPatternsInFile(modelName, Fused(txt))],
        [type |-> "WEAK_INDICATOR", minReal |-> 0,
         counts |-> weakPatternsInFile(modelName, Fused(txt))] >>

\* patterns.forEach: one usage per pattern that has matches
GroupUsages(g) ==
  SelectSeq([i \in 1..Len(g.counts) |->
               [type |-> g.type, pattern |-> i, count |-> g.counts[i]]],
            LAMBDA u : u.count > 0)

\* (variant: any match of any group sets isRealUsage)
GroupIsRealOnAnyMatch(g) ==
  \E i \in 1..Len(g.counts) : g.counts[i] >= 1

\* some pattern of the group has enough matches to set isRealUsage
GroupIsReal(g) ==
  g.minReal > 0 /\ \E i \in 1..Len(g.counts) : g.counts[i] >= g.minReal

\* (variant: a read that throws gives usage details without usages)
analyzeModelUsageInFileEmptyOnFailure(filePath, modelName, file) ==
  LET groups == GroupResults(modelName, filePath,
                             contentWithoutComments(file.content))
      usages == Flatten([i \in 1..Len(groups) |-> GroupUsages(groups[i])])
      usageDetails ==
        [file |-> filePath,
         isClientFile |-> isClientFile(filePath),
         usages |-> usages,
         isRealUsage |-> \E i \in 1..Len(groups) : GroupIsReal(groups[i])]
  IN  IF Len(usages) > 0 \/ ~file.readable THEN usageDetails ELSE Null

\* analyzeModelUsageInFile on the file the disk holds at filePath: a read
\* that throws is caught and gives null
analyzeModelUsageInFile(filePath, modelName, file) ==
  IF ~file.readable THEN Null
  ELSE LET groups == GroupResults(modelName, filePath,
                                  contentWithoutComments(file.content))
           usages == Flatten([i \in 1..Len(groups) |-> GroupUsages(groups[i])])
           usageDetails ==
             [file |-> filePath,
              isClientFile |-> isClientFile(filePath),
              usages |-> usages,
              isRealUsage |-> \E i \in 1..Len(groups) : GroupIsReal(groups[i])]
       IN  IF Len(usages) > 0 THEN usageDetails ELSE Null

\* ------------------------------------------------------- risk assessment
hasStrongUsage(usageTypes) ==
  "DATABASE_OPERATION" \in usageTypes \/ "API_ENDPOINT" \in usageTypes

hasMediumUsage(usageTypes) ==
  \/ "TYPE_DEFINITION" \in usageTypes
  \/ "BUSINESS_LOGIC" \in usageTypes
  \/ "CLIENT_OPERATION" \in usageTypes

hasWeakUsage(usageTypes) ==
  "WEAK_INDICATOR" \in usageTypes \/ "SCHEMA_REFERENCE" \in usageTypes

\* (variant: the last branch leaves the initial level)
riskAssessmentUnknownFallthrough(usageTypes, totalConfidence) ==
  IF hasStrongUsage(usageTypes)
  THEN [isReallyUsed |-> TRUE, riskLevel |-> "SAFE"]
  ELSE IF hasMediumUsage(usageTypes) /\ totalConfidence >= 30
  THEN [isReallyUsed |-> TRUE, riskLevel |-> "PROBABLY_SAFE"]
  ELSE IF hasMediumUsage(usageTypes) \/ (hasWeakUsage(usageTypes) /\ totalConfidence >= 20)
  THEN [isReallyUsed |-> FALSE, riskLevel |-> "SUSPICIOUS"]
  ELSE IF hasWeakUsage(usageTypes)
  THEN [isReallyUsed |-> FALSE, riskLevel |-> "LIKELY_UNUSED"]
  ELSE [isReallyUsed |-> FALSE, riskLevel |-> "UNKNOWN"]

\* (variant: the first two rules in the other order)
riskAssessmentMediumFirst(usageTypes, totalConfidence) ==
  IF hasMediumUsage(usageTypes) /\ totalConfidence >= 30
  THEN [isReallyUsed |-> TRUE, riskLevel |-> "PROBABLY_SAFE"]
  ELSE IF hasStrongUsage(usageTypes)
  THEN [isReallyUsed |-> TRUE, riskLevel |-> "SAFE"]
  ELSE IF hasMediumUsage(usageTypes) \/ (hasWeakUsage(usageTypes) /\ totalConfidence >= 20)
  THEN [isReallyUsed |-> FALSE, riskLevel |-> "SUSPICIOUS"]
  ELSE IF hasWeakUsage(usageTypes)
  THEN [isReallyUsed |-> FALSE, riskLevel |-> "LIKELY_UNUSED"]
  ELSE [isReallyUsed |-> FALSE, riskLevel |-> "DEFINITELY_UNUSED"]

\* (variant: SUSPICIOUS counted as really used)
riskAssessmentSuspiciousUsed(usageTypes, totalConfidence) ==
  IF hasStrongUsage(usageTypes)
  THEN [isReallyUsed |-> TRUE, riskLevel |-> "SAFE"]
  ELSE IF hasMediumUsage(usageTypes) /\ totalConfidence >= 30
  THEN [isReallyUsed |-> TRUE, riskLevel |-> "PROBABLY_SAFE"]
  ELSE IF hasMediumUsage(usageTypes) \/ (hasWeakUsage(usageTypes) /\ totalConfidence >= 20)
  THEN [isReallyUsed |-> TRUE, riskLevel |-> "SUSPICIOUS"]
  ELSE IF hasWeakUsage(usageTypes)
  THEN [isReallyUsed |-> FALSE, riskLevel |-> "LIKELY_UNUSED"]
  ELSE [isReallyUsed |-> FALSE, riskLevel |-> "DEFINITELY_UNUSED"]

\* the if / else-if chain that sets isReallyUsed and riskLevel
riskAssessment(usageTypes, totalConfidence) ==
  IF hasStrongUsage(usageTypes)
  THEN [isReallyUsed |-> TRUE, riskLevel |-> "SAFE"]
  ELSE IF hasMediumUsage(usageTypes) /\ totalConfidence >= 30
  THEN [isReallyUsed |-> TRUE, riskLevel |-> "PROBABLY_SAFE"]
  ELSE IF hasMediumUsage(usageTypes) \/ (hasWeakUsage(usageTypes) /\ totalConfidence >= 20)
  THEN [isReallyUsed |-> FALSE, riskLevel |-> "SUSPICIOUS"]
  ELSE IF hasWeakUsage(usageTypes)
  THEN [isReallyUsed |-> FALSE, riskLevel |-> "LIKELY_UNUSED"]
  ELSE [isReallyUsed |-> FALSE, riskLevel |-> "DEFINITELY_UNUSED"]

\* fileAnalyses.sort((a, b) => b.confidence - a.confidence): stable, in place
RECURSIVE InsertByConfidence(_, _)
InsertByConfidence(sorted, a) ==
  IF sorted = << >> THEN <<a>>
  ELSE IF Head(sorted).confidence >= a.confidence
       THEN <<Head(sorted)>> \o InsertByConfidence(Tail(sorted), a)
       ELSE <<a>> \o sorted

RECURSIVE SortByConfidence(_)
SortByConfidence(s) ==
  IF s = << >> THEN << >>
  ELSE InsertByConfidence(SortByConfidence(SubSeq(s, 1, Len(s) - 1)), s[Len(s)])

\* ------------------------------------------------------------ inputs
ServerFile == <<"server", "src/a.ts">>
ClientFile == <<"client", "src/b.tsx">>
ClientFile2 == <<"client", "src/c.tsx">>
Files == {ServerFile, ClientFile}

\* src/a.ts under the server roots app-api, app/server and app, and
\* src/b.tsx under the client roots app and app/client
SiblingServerFile == <<"app", "-api", "src/a.ts">>
NestedServerFile == <<"app", "server", "src/a.ts">>
OuterServerFile == <<"app", "src/a.ts">>
OuterClientFile == <<"app", "src/b.tsx">>
NestedClientFile == <<"app", "client", "src/b.tsx">>

\* the files the search paths hold, server roots first
SearchOrder ==
  <<ServerFile, SiblingServerFile, NestedServerFile, OuterServerFile,
    ClientFile, ClientFile2, OuterClientFile, NestedClientFile>>

\* the directory layouts the two command-line arguments may name: the
\* roots, and the file each root's src search path holds
Layouts ==
  { [server |-> <<"server">>, client |-> <<"client">>,
     serverFile |-> ServerFile, clientFile |-> ClientFile],
    [server |-> <<"app", "-api">>, client |-> <<"app">>,
     serverFile |-> SiblingServerFile, clientFile |-> OuterClientFile],
    [server |-> <<"app", "server">>, client |-> <<"app">>,
     serverFile |-> NestedServerFile, clientFile |-> OuterClientFile],
    [server |-> <<"app">>, client |-> <<"app", "client">>,
     serverFile |-> OuterServerFile, clientFile |-> NestedClientFile] }

\* a model block of schema.prisma: its name and its field lines
Block(name, fields) == [name |-> name, fields |-> fields]

\* a field line "<field> <type> ..." with or without @relation after the type
Field(name, type, relation) == [name |-> name, type |-> type, relation |-> relation]

\* relationRegex over a model body: the fields whose type is followed by
\* @relation, as {field, model}
parseRelationships(fields) ==
  LET related == SelectSeq(fields, LAMBDA f : f.relation)
  IN  [i \in 1..Len(related) |-> [field |-> related[i].name, model |-> related[i].type]]

\* modelRegex over the schema text: one entry of this.models for each block
parseModels(blocks) ==
  [i \in 1..Len(blocks) |->
     [name |-> blocks[i].name,
      relationships |-> parseRelationships(blocks[i].fields)]]

\* the schema of two models without fields
SchemaBlocks == << Block("Widget", << >>), Block("Order", << >>) >>

\* the declared models of schema.prisma, in declaration order
SchemaModels == parseModels(SchemaBlocks)

ModelNames == {SchemaModels[i].name : i \in 1..Len(SchemaModels)}

ReadableSchema(blocks) == [readable |-> TRUE, blocks |-> blocks]
UnreadableSchema == [readable |-> FALSE, blocks |-> << >>]

\* kinds of the name atoms free text is drawn from
FreeKinds == {"name", "dbcall", "reqparam", "typeann", "svccall", "props"}

\* atoms free text is drawn from
Alphabet ==
  {NL, LC, HASH, SEED}
    \cup {<<k, "Widget">> : k \in FreeKinds}
    \cup {<<"dbcall", "Order">>}

TextsOfLen(n) == [1..n -> Alphabet]

\* import { <Model> } from '<path>' with either kind of quote
ImportLines ==
  {<<IMPORT, <<"name", m>>, FROM, q, p, q>> :
      m \in {"Widget"}, q \in {SQ, DQ}, p \in {PATH, SEED}}

\* router.get( '<path>' and fetch( '<path>' with either kind of quote, the
\* path holding the model name
RouteLines ==
  {<<c, q, <<"apipath", m>>, q>> :
      c \in {ROUTE, FETCH}, q \in {SQ, DQ}, m \in {"Widget"}}

Readable(text) == [readable |-> TRUE, content |-> text]
Unreadable == [readable |-> FALSE, content |-> << >>]

Disk(a, b) == (ServerFile :> a) @@ (ClientFile :> b)

\* ------------------------------------------------------------- state
VARIABLES
  disk,          \* the file system: path -> [readable, content]
  schema,        \* prisma/schema.prisma: [readable, blocks]
  models,        \* this.models, in insertion order
  modelUsage,    \* this.modelUsage: model name -> ModelUsage
  fileCache,     \* this.fileCache: path -> [raw, clean]
  allFiles,      \* analyzeAllModels: the files found, server roots first
  cur,           \* analyzeAllModels: the ModelUsage being filled in
  mi,            \* analyzeAllModels: position in this.models
  fi,            \* analyzeAllModels: position in allFiles
  pc,
  reads,         \* path -> number of fs.readFileSync calls made for it
  obtained,      \* path -> the pairs getFileContent has returned for it
  relationshipAudit,  \* what analyzeRelationships found, model by model
  exported,      \* exportResults has written the report
  exitStatus,    \* "running", or the status process.exit was called with
  run,           \* number of the analyzeAllModels call in progress
  firstUsage,    \* this.modelUsage as the first call left it
  eModels,           \* enhanced analyzer: this.models, in insertion order
  usedModels,        \* this.usedModels: model -> usage
  suspiciousModels,  \* this.suspiciousModels: model -> usage
  unusedModels,      \* this.unusedModels
  eAllFiles,         \* analyzeUsage: allFiles
  eCur,              \* analyzeUsage: the modelUsage being filled in
  eMi,               \* analyzeUsage: position in this.models
  eFi,               \* analyzeUsage: position in allFiles
  ePc,
  eExit              \* "running", or the status process.exit was called with

\* what the report, the export and the exit leave behind
outVars == <<relationshipAudit, exported, exitStatus>>

\* the caller's view of repeated analyzeAllModels calls
runVars == <<run, firstUsage>>

\* the state of the enhanced analyzer
evars ==
  <<eModels, usedModels, suspiciousModels, unusedModels,
    eAllFiles, eCur, eMi, eFi, ePc, eExit>>

\* the state of the comprehensive analyzer
cvars ==
  <<models, modelUsage, fileCache, allFiles, cur, mi, fi, pc, reads, obtained,
    outVars, runVars>>

vars == <<roots, disk, schema, cvars, evars>>

\* the disks a run may find: free text of at most MaxLen atoms in all, one
\* of the files possibly unreadable, or one file that is a single import
\* line or a single route line
InitDisk ==
  \/ \E k \in 0..MaxLen : \E n \in 0..(MaxLen - k) :
       \E a \in TextsOfLen(k), b \in TextsOfLen(n) :
         disk = Disk(Readable(a), Readable(b))
  \/ \E n \in 0..(MaxLen - 1) : \E t \in TextsOfLen(n) :
       \/ disk = Disk(Unreadable, Readable(t))
       \/ disk = Disk(Readable(t), Unreadable)
  \/ \E n \in 0..1 : \E t \in TextsOfLen(n), l \in ImportLines \cup RouteLines :
       \/ disk = Disk(Readable(l), Readable(t))
       \/ disk = Disk(Readable(t), Readable(l))

\* the constructor arguments the command line gives when none is passed
DefaultRoots ==
  /\ serverPath = <<"server">>
  /\ clientPath = <<"client">>

\* both analyzers as their constructors leave them
InitAnalyzers ==
  /\ models = << >>
  /\ modelUsage = << >>
  /\ fileCache = << >>
  /\ allFiles = << >>
  /\ cur = Null
  /\ mi = 0
  /\ fi = 0
  /\ pc = "parsePrismaSchema"
  /\ reads = [f \in DOMAIN disk |-> 0]
  /\ obtained = [f \in DOMAIN disk |-> {}]
  /\ relationshipAudit = << >>
  /\ exported = FALSE
  /\ exitStatus = "running"
  /\ run = 1
  /\ firstUsage = << >>
  /\ eModels = << >>
  /\ usedModels = << >>
  /\ suspiciousModels = << >>
  /\ unusedModels = {}
  /\ eAllFiles = << >>
  /\ eCur = Null
  /\ eMi = 0
  /\ eFi = 0
  /\ ePc = "parsePrismaSchema"
  /\ eExit = "running"

Init ==
  /\ InitDisk
  /\ schema = ReadableSchema(SchemaBlocks)
  /\ DefaultRoots
  /\ InitAnalyzers

\* ------------------------------------- comprehensive analyzer: actions
\* (variant: a read that throws is caught and the run goes on with no model)
ParsePrismaSchemaGoesOn ==
  /\ pc = "parsePrismaSchema"
  /\ models' = parseModels(schema.blocks)
  /\ pc' = "analyzeAllModels"
  /\ UNCHANGED <<roots, disk, schema, modelUsage, fileCache, allFiles, cur, mi, fi,
                 reads, obtained, outVars, runVars, evars>>

\* parsePrismaSchema: this.models.set(modelName, ...) for every model block
\* of the schema; a read that throws is caught and ends the process
ParsePrismaSchema ==
  /\ pc = "parsePrismaSchema"
  /\ IF schema.readable
     THEN /\ models' = parseModels(schema.blocks)
          /\ pc' = "analyzeAllModels"
          /\ UNCHANGED exitStatus
     ELSE /\ exitStatus' = "failure"
          /\ pc' = "exited"
          /\ UNCHANGED models
  /\ UNCHANGED <<roots, disk, schema, modelUsage, fileCache, allFiles, cur, mi, fi,
                 reads, obtained, relationshipAudit, exported, runVars, evars>>

\* analyzeAllModels up to its model loop: the file list
CollectFiles ==
  /\ pc = "analyzeAllModels"
  /\ allFiles' = SelectSeq(SearchOrder, LAMBDA f : f \in DOMAIN disk)
  /\ mi' = 1
  /\ pc' = "model"
  /\ UNCHANGED <<roots, disk, schema, models, modelUsage, fileCache, cur, fi, reads, obtained,
                 outVars, runVars, evars>>

\* head of the model loop: a fresh ModelUsage
BeginModel ==
  /\ pc = "model"
  /\ mi <= Len(models)
  /\ cur' = [model |-> models[mi],
             totalFiles |-> 0,
             serverFiles |-> 0,
             clientFiles |-> 0,
             totalConfidence |-> 0,
             usageTypes |-> {},
             fileAnalyses |-> << >>,
             isReallyUsed |-> FALSE,
             riskLevel |-> "UNKNOWN"]
  /\ fi' = 1
  /\ pc' = "file"
  /\ UNCHANGED <<roots, disk, schema, models, modelUsage, fileCache, allFiles, mi,
                 reads, obtained, outVars, runVars, evars>>

\* getFileContent: the cached pair, or a read of the disk
getFileContent(filePath) ==
  IF filePath \in DOMAIN fileCache THEN fileCache[filePath]
  ELSE IF disk[filePath].readable
       THEN [raw |-> disk[filePath].content,
             clean |-> cleanContent(disk[filePath].content)]
       ELSE [raw |-> << >>, clean |-> << >>]

\* (variant: the raw text is stored as the clean text too)
fileCacheAfterRawAsClean(filePath) ==
  IF filePath \in DOMAIN fileCache \/ ~disk[filePath].readable
  THEN fileCache
  ELSE fileCache @@ (filePath :> [raw |-> disk[filePath].content,
                                  clean |-> disk[filePath].content])

\* this.fileCache after getFileContent(filePath): a failed read stores nothing
fileCacheAfter(filePath) ==
  IF filePath \in DOMAIN fileCache \/ ~disk[filePath].readable
  THEN fileCache
  ELSE fileCache @@ (filePath :> getFileContent(filePath))

\* the read counts after getFileContent(filePath): fs.readFileSync is called
\* when the cache has no entry for the path
readsAfter(filePath) ==
  IF filePath \in DOMAIN fileCache THEN reads
  ELSE [reads EXCEPT ![filePath] = @ + 1]

\* (variant: the confidence assigned instead of added)
foldAnalysisDropConfidence(usage, analysis) ==
  [usage EXCEPT
     !.totalFiles = @ + 1,
     !.serverFiles = IF analysis.isClientFile THEN @ ELSE @ + 1,
     !.clientFiles = IF analysis.isClientFile THEN @ + 1 ELSE @,
     !.totalConfidence = analysis.confidence,
     !.usageTypes = @ \cup analysis.usageTypes,
     !.fileAnalyses = Append(@, analysis)]

\* (variant: the tags of the file replace the tags collected so far)
foldAnalysisLastTags(usage, analysis) ==
  [usage EXCEPT
     !.totalFiles = @ + 1,
     !.serverFiles = IF analysis.isClientFile THEN @ ELSE @ + 1,
     !.clientFiles = IF analysis.isClientFile THEN @ + 1 ELSE @,
     !.totalConfidence = @ + analysis.confidence,
     !.usageTypes = analysis.usageTypes,
     !.fileAnalyses = Append(@, analysis)]

\* the body of "if (analysis)" in the file loop
foldAnalysis(usage, analysis) ==
  [usage EXCEPT
     !.totalFiles = @ + 1,
     !.serverFiles = IF analysis.isClientFile THEN @ ELSE @ + 1,
     !.clientFiles = IF analysis.isClientFile THEN @ + 1 ELSE @,
     !.totalConfidence = @ + analysis.confidence,
     !.usageTypes = @ \cup analysis.usageTypes,
     !.fileAnalyses = Append(@, analysis)]

\* one pass of the file loop
AnalyzeFile ==
  /\ pc = "file"
  /\ fi <= Len(allFiles)
  /\ LET filePath == allFiles[fi]
         analysis == analyzeModelUsage(cur.model.name, filePath, getFileContent(filePath))
     IN  /\ fileCache' = fileCacheAfter(filePath)
         /\ reads' = readsAfter(filePath)
         /\ obtained' = [obtained EXCEPT ![filePath] = @ \cup {getFileContent(filePath)}]
         /\ cur' = IF analysis # Null THEN foldAnalysis(cur, analysis) ELSE cur
  /\ fi' = fi + 1
  /\ UNCHANGED <<roots, disk, schema, models, modelUsage, allFiles, mi, pc,
                 outVars, runVars, evars>>

\* after the file loop: the risk assessment, this.modelUsage.set and the
\* in-place sort of fileAnalyses made for the log
AssessRisk ==
  /\ pc = "file"
  /\ fi > Len(allFiles)
  /\ LET r == riskAssessment(cur.usageTypes, cur.totalConfidence)
         done == [cur EXCEPT !.isReallyUsed = r.isReallyUsed,
                             !.riskLevel = r.riskLevel,
                             !.fileAnalyses = SortByConfidence(@)]
     IN  modelUsage' = [n \in DOMAIN modelUsage \cup {cur.model.name} |->
                          IF n = cur.model.name THEN done ELSE modelUsage[n]]
  /\ cur' = Null
  /\ mi' = mi + 1
  /\ pc' = "model"
  /\ UNCHANGED <<roots, disk, schema, models, fileCache, allFiles, fi, reads, obtained,
                 outVars, runVars, evars>>

\* the model loop ends
FinishAnalyze ==
  /\ pc = "model"
  /\ mi > Len(models)
  /\ pc' = "done"
  /\ UNCHANGED <<roots, disk, schema, models, modelUsage, fileCache, allFiles, cur,
                 mi, fi, reads, obtained, outVars, runVars, evars>>

\* generateComprehensiveReport: modelsByRisk, the names of this.modelUsage
\* level by level, in insertion order
modelsByRisk(level) ==
  LET names == [i \in 1..Len(models) |-> models[i].name]
  IN  SelectSeq(names, LAMBDA n : n \in DOMAIN modelUsage
                                   /\ modelUsage[n].riskLevel = level)

\* the set of the elements of a sequence
Range(s) == {s[i] : i \in 1..Len(s)}

\* (variant: the model itself is not skipped)
relatedModelsWithSelf(modelName) ==
  LET others == SelectSeq(models, LAMBDA o :
                    \E i \in 1..Len(o.relationships) :
                      o.relationships[i].model = modelName)
  IN  [i \in 1..Len(others) |-> others[i].name]

\* analyzeRelationships, the inner loop: the other models that have a
\* relationship whose model is modelName
relatedModels(modelName) ==
  LET others == SelectSeq(models, LAMBDA o :
                    /\ o.name # modelName
                    /\ \E i \in 1..Len(o.relationships) :
                         o.relationships[i].model = modelName)
  IN  [i \in 1..Len(others) |-> others[i].name]

\* (variant: the referencing models that are not DEFINITELY_UNUSED make the
\* DANGER line)
analyzeRelationshipsRiskyCountsAsUsed ==
  LET unusedNames == Range(modelsByRisk("DEFINITELY_UNUSED"))
      riskyNames == Range(modelsByRisk("SUSPICIOUS"))
                      \cup Range(modelsByRisk("LIKELY_UNUSED"))
      atRisk == SelectSeq(models, LAMBDA m :
                    m.name \in unusedNames \/ m.name \in riskyNames)
      entry(modelName) ==
        LET related == relatedModels(modelName)
            safeRelations ==
              SelectSeq(related, LAMBDA rel : rel \notin unusedNames)
        IN  [model |-> modelName,
             relatedModels |-> related,
             safeRelations |-> safeRelations,
             danger |-> Len(safeRelations) > 0]
  IN  [i \in 1..Len(atRisk) |-> entry(atRisk[i].name)]

\* analyzeRelationships: for every model of this.models that is at risk, the
\* models that reference it and, when there are any, those of them that are
\* in neither at-risk set, which make the DANGER line
analyzeRelationships ==
  LET unusedNames == Range(modelsByRisk("DEFINITELY_UNUSED"))
      riskyNames == Range(modelsByRisk("SUSPICIOUS"))
                      \cup Range(modelsByRisk("LIKELY_UNUSED"))
      atRisk == SelectSeq(models, LAMBDA m :
                    m.name \in unusedNames \/ m.name \in riskyNames)
      entry(modelName) ==
        LET related == relatedModels(modelName)
            safeRelations ==
              IF Len(related) > 0
              THEN SelectSeq(related, LAMBDA rel :
                       rel \notin unusedNames /\ rel \notin riskyNames)
              ELSE << >>
        IN  [model |-> modelName,
             relatedModels |-> related,
             safeRelations |-> safeRelations,
             danger |-> Len(safeRelations) > 0]
  IN  [i \in 1..Len(atRisk) |-> entry(atRisk[i].name)]

\* generateComprehensiveReport, with the relationship analysis it calls
GenerateComprehensiveReport ==
  /\ pc = "done"
  /\ relationshipAudit' = analyzeRelationships
  /\ pc' = "exportResults"
  /\ UNCHANGED <<roots, disk, schema, models, modelUsage, fileCache, allFiles, cur,
                 mi, fi, reads, obtained, exported, exitStatus, runVars, evars>>

\* exportResults: the report file is written
ExportResults ==
  /\ pc = "exportResults"
  /\ exported' = TRUE
  /\ pc' = "exit"
  /\ UNCHANGED <<roots, disk, schema, models, modelUsage, fileCache, allFiles, cur,
                 mi, fi, reads, obtained, relationshipAudit, exitStatus, runVars, evars>>

\* analyze: process.exit(0) after the export
ExitSuccess ==
  /\ pc = "exit"
  /\ exitStatus' = "success"
  /\ pc' = "exited"
  /\ UNCHANGED <<roots, disk, schema, models, modelUsage, fileCache, allFiles, cur,
                 mi, fi, reads, obtained, relationshipAudit, exported, runVars, evars>>

Next ==
  \/ ParsePrismaSchema
  \/ CollectFiles
  \/ BeginModel
  \/ AnalyzeFile
  \/ AssessRisk
  \/ FinishAnalyze
  \/ GenerateComprehensiveReport
  \/ ExportResults
  \/ ExitSuccess

Spec == Init /\ [][Next]_vars

\* a caller that holds the analyzer calls analyzeAllModels once more, on the
\* cache the first call filled
AnalyzeAllModelsAgain ==
  /\ pc = "done"
  /\ run = 1
  /\ run' = 2
  /\ firstUsage' = modelUsage
  /\ pc' = "analyzeAllModels"
  /\ UNCHANGED <<roots, disk, schema, models, modelUsage, fileCache, allFiles, cur,
                 mi, fi, reads, obtained, outVars, evars>>

NextTwice == Next \/ AnalyzeAllModelsAgain

SpecTwice == Init /\ [][NextTwice]_vars

\* ----------------------------------------- enhanced analyzer: actions
\* parsePrismaSchema: this.models.add(name) for every model block; a read
\* that throws is caught and ends the process
EnhancedParsePrismaSchema ==
  /\ ePc = "parsePrismaSchema"
  /\ IF schema.readable
     THEN /\ eModels' = [i \in 1..Len(schema.blocks) |-> schema.blocks[i].name]
          /\ ePc' = "analyzeUsage"
          /\ UNCHANGED eExit
     ELSE /\ eExit' = "failure"
          /\ ePc' = "exited"
          /\ UNCHANGED eModels
  /\ UNCHANGED <<roots, disk, schema, cvars, usedModels, suspiciousModels,
                 unusedModels, eAllFiles, eCur, eMi, eFi>>

\* analyzeUsage up to its model loop: the file list, without duplicates
EnhancedCollectFiles ==
  /\ ePc = "analyzeUsage"
  /\ eAllFiles' = SelectSeq(SearchOrder, LAMBDA f : f \in DOMAIN disk)
  /\ eMi' = 1
  /\ ePc' = "model"
  /\ UNCHANGED <<roots, disk, schema, cvars, eModels, usedModels, suspiciousModels,
                 unusedModels, eCur, eFi, eExit>>

\* head of the model loop: a fresh modelUsage
EnhancedBeginModel ==
  /\ ePc = "model"
  /\ eMi <= Len(eModels)
  /\ eCur' = [realUsages |-> << >>,
              suspiciousUsages |-> << >>,
              serverUsages |-> << >>,
              clientUsages |-> << >>,
              totalFiles |-> 0,
              isReallyUsed |-> FALSE]
  /\ eFi' = 1
  /\ ePc' = "file"
  /\ UNCHANGED <<roots, disk, schema, cvars, eModels, usedModels, suspiciousModels,
                 unusedModels, eAllFiles, eMi, eExit>>

\* the body of "if (usage)" in the file loop of analyzeUsage
foldUsage(modelUsageRec, usage) ==
  [modelUsageRec EXCEPT
     !.totalFiles = @ + 1,
     !.clientUsages = IF usage.isClientFile THEN Append(@, usage) ELSE @,
     !.serverUsages = IF usage.isClientFile THEN @ ELSE Append(@, usage),
     !.realUsages = IF usage.isRealUsage THEN Append(@, usage) ELSE @,
     !.isReallyUsed = IF usage.isRealUsage THEN TRUE ELSE @,
     !.suspiciousUsages = IF usage.isRealUsage THEN @ ELSE Append(@, usage)]

\* one pass of the file loop
EnhancedAnalyzeFile ==
  /\ ePc = "file"
  /\ eFi <= Len(eAllFiles)
  /\ LET filePath == eAllFiles[eFi]
         usage == analyzeModelUsageInFile(filePath, eModels[eMi], disk[filePath])
     IN  eCur' = IF usage # Null THEN foldUsage(eCur, usage) ELSE eCur
  /\ eFi' = eFi + 1
  /\ UNCHANGED <<roots, disk, schema, cvars, eModels, usedModels, suspiciousModels,
                 unusedModels, eAllFiles, eMi, ePc, eExit>>

\* (variant: a model found in no file is recorded as suspicious as well)
EnhancedClassifyUnusedAlsoSuspicious ==
  /\ ePc = "file"
  /\ eFi > Len(eAllFiles)
  /\ LET model == eModels[eMi]
     IN  IF eCur.isReallyUsed
         THEN /\ usedModels' = [n \in DOMAIN usedModels \cup {model} |->
                                  IF n = model THEN eCur ELSE usedModels[n]]
              /\ UNCHANGED <<suspiciousModels, unusedModels>>
         ELSE /\ suspiciousModels' =
                   [n \in DOMAIN suspiciousModels \cup {model} |->
                      IF n = model THEN eCur ELSE suspiciousModels[n]]
              /\ unusedModels' = IF eCur.totalFiles > 0 THEN unusedModels
                                 ELSE unusedModels \cup {model}
              /\ UNCHANGED usedModels
  /\ eCur' = Null
  /\ eMi' = eMi + 1
  /\ ePc' = "model"
  /\ UNCHANGED <<roots, disk, schema, cvars, eModels, eAllFiles, eFi, eExit>>

\* after the file loop: the model goes to one of the three collections
EnhancedClassify ==
  /\ ePc = "file"
  /\ eFi > Len(eAllFiles)
  /\ LET model == eModels[eMi]
     IN  IF eCur.isReallyUsed
         THEN /\ usedModels' = [n \in DOMAIN usedModels \cup {model} |->
                                  IF n = model THEN eCur ELSE usedModels[n]]
              /\ UNCHANGED <<suspiciousModels, unusedModels>>
         ELSE IF eCur.totalFiles > 0
         THEN /\ suspiciousModels' =
                   [n \in DOMAIN suspiciousModels \cup {model} |->
                      IF n = model THEN eCur ELSE suspiciousModels[n]]
              /\ UNCHANGED <<usedModels, unusedModels>>
         ELSE /\ unusedModels' = unusedModels \cup {model}
              /\ UNCHANGED <<usedModels, suspiciousModels>>
  /\ eCur' = Null
  /\ eMi' = eMi + 1
  /\ ePc' = "model"
  /\ UNCHANGED <<roots, disk, schema, cvars, eModels, eAllFiles, eFi, eExit>>

\* the model loop ends; generateReport and exportResults change nothing of
\* the three collections, and analyze calls process.exit(0)
EnhancedFinish ==
  /\ ePc = "model"
  /\ eMi > Len(eModels)
  /\ eExit' = "success"
  /\ ePc' = "exited"
  /\ UNCHANGED <<roots, disk, schema, cvars, eModels, usedModels, suspiciousModels,
                 unusedModels, eAllFiles, eCur, eMi, eFi>>

NextEnhanced ==
  \/ EnhancedParsePrismaSchema
  \/ EnhancedCollectFiles
  \/ EnhancedBeginModel
  \/ EnhancedAnalyzeFile
  \/ EnhancedClassify
  \/ EnhancedFinish

\* the comprehensive analyzer is run first and the enhanced analyzer, a
\* process of its own, after it has exited, on the same schema and files
NextBoth == Next \/ (pc = "exited" /\ NextEnhanced)

\* the disks and schemas both analyzers are run on: free text of less than
\* MaxLen atoms in all, one of the files possibly unreadable, and the schema
\* of two models or no readable schema
InitBoth ==
  /\ \/ \E k \in 0..(MaxLen - 1) : \E n \in 0..(MaxLen - 1 - k) :
          \E a \in TextsOfLen(k), b \in TextsOfLen(n) :
            disk = Disk(Readable(a), Readable(b))
     \/ \E n \in 0..(MaxLen - 1) : \E t \in TextsOfLen(n) :
          \/ disk = Disk(Unreadable, Readable(t))
          \/ disk = Disk(Readable(t), Unreadable)
  /\ schema \in {ReadableSchema(SchemaBlocks), UnreadableSchema}
  /\ DefaultRoots
  /\ InitAnalyzers

SpecBoth == InitBoth /\ [][NextBoth]_vars

\* atoms the text of the client files of InitClient is drawn from
ClientAlphabet == {<<"props", "Widget">>, <<"state", "Widget">>, <<"name", "Widget">>}

\* the texts of the server file of InitClient
ServerTexts == {<< >>, <<<<"name", "Widget">>>>, <<<<"dbcall", "Widget">>>>}

\* a server file and two client files: component naming of at most MaxLen
\* atoms in all, spread over the two client files
InitClient ==
  /\ \E k \in 0..MaxLen : \E n \in 0..(MaxLen - k) :
       \E a \in ServerTexts, b \in [1..k -> ClientAlphabet], c \in [1..n -> ClientAlphabet] :
         disk = (ServerFile :> Readable(a)) @@ (ClientFile :> Readable(b))
                  @@ (ClientFile2 :> Readable(c))
  /\ schema = ReadableSchema(SchemaBlocks)
  /\ DefaultRoots
  /\ InitAnalyzers

SpecClient == InitClient /\ [][Next]_vars

\* atoms the text of the files of InitPaths is drawn from
PathAlphabet ==
  {<<"dbcall", "Widget">>, <<"props", "Widget">>, <<"svccall", "Widget">>,
   <<"name", "Widget">>}

\* the analyzers constructed on one of the layouts, with a file under the
\* server root and one under the client root, of at most MaxLen atoms in all
InitPaths ==
  /\ \E l \in Layouts :
       /\ serverPath = l.server
       /\ clientPath = l.client
       /\ \E k \in 0..MaxLen : \E n \in 0..(MaxLen - k) :
            \E a \in [1..k -> PathAlphabet], b \in [1..n -> PathAlphabet] :
              disk = (l.serverFile :> Readable(a)) @@ (l.clientFile :> Readable(b))
  /\ schema = ReadableSchema(SchemaBlocks)
  /\ InitAnalyzers

SpecPaths == InitPaths /\ [][Next]_vars

\* what a comment or a string literal of InitQuoted holds: a seed or
\* relation keyword with the model name, a bare name, a database call, or
\* the two slashes of a URL
InnerTexts ==
  { <<SEED, <<"name", "Widget">>>>, <<<<"name", "Widget">>, SEED>>,
    <<RELATION, <<"name", "Widget">>>>, <<<<"name", "Widget">>>>,
    <<<<"dbcall", "Widget">>>>, <<LC>> }

\* the lines of the files of InitQuoted: nothing, or one of the inner texts
\* as code, in a comment or in a string literal
LineShapes ==
  { << >> } \cup InnerTexts
    \cup { <<LC>> \o x : x \in InnerTexts }
    \cup { <<HASH>> \o x : x \in InnerTexts }
    \cup { <<BO>> \o x \o <<BC>> : x \in InnerTexts }
    \cup { <<HO>> \o x \o <<HC>> : x \in InnerTexts }
    \cup { <<q>> \o x \o <<q>> : q \in Quotes, x \in InnerTexts }

\* a server file of two lines and an empty client file
InitQuoted ==
  /\ \E a \in LineShapes, b \in LineShapes :
       disk = Disk(Readable(a \o <<NL>> \o b), Readable(<< >>))
  /\ schema = ReadableSchema(SchemaBlocks)
  /\ DefaultRoots
  /\ InitAnalyzers

SpecQuoted == InitQuoted /\ [][Next]_vars

\* a comment that stands between the two halves of a name, with nothing
\* else between them: /* x */, <!-- x -->, // x or # x up to the line end
CommentsOf(x) ==
  { <<BO>> \o x \o <<BC>>, <<HO>> \o x \o <<HC>>,
    <<LC>> \o x \o <<NL>>, <<HASH>> \o x \o <<NL>> }

\* atoms the text of the comments of InitJoined is drawn from
CommentAlphabet == {SEED, <<"name", "Widget">>, <<"dbcall", "Order">>}

\* a server file that reads Wid<comment>get, the comment of at most MaxLen
\* atoms, and an empty client file
InitJoined ==
  /\ \E n \in 0..MaxLen : \E x \in [1..n -> CommentAlphabet] :
       \E c \in CommentsOf(x) :
         disk = Disk(Readable(<< <<"head", "Widget">>, JOIN >> \o c
                               \o << JOIN, <<"tail", "Widget">> >>),
                     Readable(<< >>))
  /\ schema = ReadableSchema(SchemaBlocks)
  /\ DefaultRoots
  /\ InitAnalyzers

SpecJoined == InitJoined /\ [][NextBoth]_vars

\* atoms the text of the files of InitLines is drawn from: line breaks,
\* the delimiters of the regions that may span lines, a line comment and
\* a name
LineAlphabet == {NL, BO, BC, HO, HC, BT, LC, <<"name", "Widget">>}

\* a server file of at most MaxLen atoms and an empty client file
InitLines ==
  /\ \E n \in 0..MaxLen : \E t \in [1..n -> LineAlphabet] :
       disk = Disk(Readable(t), Readable(<< >>))
  /\ schema = ReadableSchema(SchemaBlocks)
  /\ DefaultRoots
  /\ InitAnalyzers

SpecLines == InitLines /\ [][Next]_vars

\* atoms the text of the files of InitEvidence is drawn from: one atom for
\* each of two business-logic patterns, a client idiom, a bare name and a
\* database call
EvidenceAlphabet ==
  {<<"typeann", "Widget">>, <<"validate", "Widget">>, <<"props", "Widget">>,
   <<"name", "Widget">>, <<"dbcall", "Widget">>}

\* a server file and a client file of at most MaxLen atoms in all
InitEvidence ==
  /\ \E k \in 0..MaxLen : \E n \in 0..(MaxLen - k) :
       \E a \in [1..k -> EvidenceAlphabet], b \in [1..n -> EvidenceAlphabet] :
         disk = Disk(Readable(a), Readable(b))
  /\ schema = ReadableSchema(SchemaBlocks)
  /\ DefaultRoots
  /\ InitAnalyzers

SpecEvidence == InitEvidence /\ [][NextBoth]_vars

\* the texts a file of InitChanging holds, before or after it is written
ChangingTexts == { <<<<"name", "Widget">>>>, <<<<"dbcall", "Order">>>> }

\* what fs.readFileSync may find at a path: one of the texts, or no
\* readable file
FileStates == {Unreadable} \cup {Readable(t) : t \in ChangingTexts}

\* another process writes, removes or creates a file of the file list while
\* analyzeAllModels is in its model loop
DiskChanges ==
  /\ pc \in {"model", "file"}
  /\ \E f \in DOMAIN disk : \E d \in FileStates \ {disk[f]} :
       disk' = [disk EXCEPT ![f] = d]
  /\ UNCHANGED <<roots, schema, cvars, evars>>

InitChanging ==
  /\ \E a \in FileStates, b \in FileStates : disk = Disk(a, b)
  /\ schema = ReadableSchema(SchemaBlocks)
  /\ DefaultRoots
  /\ InitAnalyzers

NextChanging == Next \/ DiskChanges

SpecChanging == InitChanging /\ [][NextChanging]_vars

\* the model blocks of the schemas of InitAnalyze, in declaration order
AuditNames == <<"Widget", "Order", "Invoice">>

\* the field lines of those schemas: a relation to one of the models, or a
\* field of a model's type without @relation
FieldChoices ==
  {Field("ref", t, TRUE) : t \in Range(AuditNames)}
    \cup {Field("plain", "Widget", FALSE)}

\* the schemas of three blocks with k, n and r field lines
SchemasOf(k, n, r) ==
  {<< Block(AuditNames[1], a), Block(AuditNames[2], b), Block(AuditNames[3], c) >> :
     a \in [1..k -> FieldChoices], b \in [1..n -> FieldChoices],
     c \in [1..r -> FieldChoices]}

\* the texts that put model m on each of the five levels: nothing, a bare
\* name, a type annotation, a service call, a database call
LevelTexts(m) ==
  {<< >>} \cup {<<<<k, m>>>> : k \in {"name", "typeann", "svccall", "dbcall"}}

\* a schema of three models with at most MaxRel field lines, or a readable
\* schema without any model block, and a server file that puts each model
\* on a level of its own
InitAnalyze ==
  /\ \/ \E k \in 0..MaxRel : \E n \in 0..(MaxRel - k) : \E r \in 0..(MaxRel - k - n) :
          \E blocks \in SchemasOf(k, n, r) : schema = ReadableSchema(blocks)
     \/ schema = ReadableSchema(<< >>)
  /\ \E w \in LevelTexts("Widget"), o \in LevelTexts("Order"),
        i \in {<< >>, <<<<"dbcall", "Invoice">>>>} :
       disk = Disk(Readable(w \o o \o i), Readable(<< >>))
  /\ DefaultRoots
  /\ InitAnalyzers

SpecAnalyze == InitAnalyze /\ [][Next]_vars

\* ------------------------------------------------------------ properties
RiskLevels ==
  {"SAFE", "PROBABLY_SAFE", "SUSPICIOUS", "LIKELY_UNUSED", "DEFINITELY_UNUSED"}

StrongTags == {"DATABASE_OPERATION", "API_ENDPOINT"}
MediumTags == {"TYPE_DEFINITION", "BUSINESS_LOGIC", "CLIENT_OPERATION"}
WeakTags == {"WEAK_INDICATOR", "SCHEMA_REFERENCE"}

\* the ModelUsage records that exist: the stored ones and the one in progress
Entries ==
  {modelUsage[n] : n \in DOMAIN modelUsage} \cup (IF cur = Null THEN {} ELSE {cur})

\* the FileAnalysis records that exist
StoredAnalyses ==
  UNION {{u.fileAnalyses[i] : i \in 1..Len(u.fileAnalyses)} : u \in Entries}

\* C1: once analyzeAllModels has completed, the usage map has an entry for
\* every model of the schema and for nothing else, and every entry's risk
\* level is one of the five levels, never the initial UNKNOWN.
C1_UsageMapComplete ==
  pc = "done" =>
    /\ DOMAIN modelUsage = {models[i].name : i \in 1..Len(models)}
    /\ \A n \in DOMAIN modelUsage :
         /\ modelUsage[n].model.name = n
         /\ modelUsage[n].riskLevel \in RiskLevels

C1_Witness ==
  /\ pc = "done"
  /\ Cardinality(DOMAIN modelUsage) = 2
  /\ modelUsage["Widget"].riskLevel = "LIKELY_UNUSED"
  /\ modelUsage["Order"].riskLevel = "DEFINITELY_UNUSED"

\* the decision list of C2, in the words of the claim
DecisionList(tags, confidence) ==
  CASE tags \cap StrongTags # {} -> "SAFE"
    [] tags \cap StrongTags = {} /\ tags \cap MediumTags # {} /\ confidence >= 30
         -> "PROBABLY_SAFE"
    [] tags \cap StrongTags = {}
       /\ ~(tags \cap MediumTags # {} /\ confidence >= 30)
       /\ (tags \cap MediumTags # {} \/ (tags \cap WeakTags # {} /\ confidence >= 20))
         -> "SUSPICIOUS"
    [] tags \cap StrongTags = {} /\ tags \cap MediumTags = {}
       /\ tags \cap WeakTags # {} /\ confidence < 20
         -> "LIKELY_UNUSED"
    [] OTHER -> "DEFINITELY_UNUSED"

\* C2: the risk level stored for a model is the result of the five-rule
\* decision list, in its priority order, on the model's tag set and total
\* confidence.
C2_DecisionList ==
  \A n \in DOMAIN modelUsage :
    modelUsage[n].riskLevel =
      DecisionList(modelUsage[n].usageTypes, modelUsage[n].totalConfidence)

\* a model with a strong tag next to medium evidence of 30 or more, and a
\* model that is SUSPICIOUS on weak evidence alone
C2_Witness ==
  /\ pc = "done"
  /\ "Widget" \in DOMAIN modelUsage
  /\ modelUsage["Widget"].usageTypes \cap StrongTags # {}
  /\ modelUsage["Widget"].usageTypes \cap MediumTags # {}
  /\ modelUsage["Widget"].totalConfidence >= 30
  /\ modelUsage["Widget"].riskLevel = "SAFE"

\* C3: isReallyUsed is true exactly for the levels SAFE and PROBABLY_SAFE.
C3_ReallyUsedIffSafe ==
  \A n \in DOMAIN modelUsage :
    modelUsage[n].isReallyUsed <=>
      modelUsage[n].riskLevel \in {"SAFE", "PROBABLY_SAFE"}

C3_Witness ==
  /\ pc = "done"
  /\ modelUsage["Widget"].riskLevel = "SUSPICIOUS"
  /\ ~modelUsage["Widget"].isReallyUsed
  /\ modelUsage["Order"].riskLevel = "SAFE"
  /\ modelUsage["Order"].isReallyUsed

\* a database-operation call on model n, in either case of the name
DbCalls(n) == {<<"dbcall", n>>}

Contains(text, S) == \E i \in 1..Len(text) : text[i] \in S

\* the atoms that open a block comment, a markup comment or a string
Openers == {BO, HO, SQ, DQ, BT}

\* position i of text is code: no line comment starts before it on its line
\* and nothing before it opens a block comment or a string
IsCode(text, i) ==
  \A j \in 1..(i - 1) :
    /\ text[j] \notin Openers
    /\ text[j] = LC => \E k \in (j + 1)..(i - 1) : text[k] = NL

\* C4 as stated: a server-area file that holds a database-operation call on
\* a model (a call in code, not a commented-out one) makes the model SAFE,
\* whatever else the file holds.
C4_RawCallIsSafe ==
  pc = "done" =>
    \A n \in DOMAIN modelUsage :
      (\E f \in Files :
          /\ ~isClientFile(f)
          /\ disk[f].readable
          /\ \E i \in 1..Len(disk[f].content) :
               disk[f].content[i] \in DbCalls(n) /\ IsCode(disk[f].content, i))
        => modelUsage[n].riskLevel = "SAFE"

\* C4 amended: a server-area file whose clean text holds a database-operation
\* call on a model makes the model SAFE.
C4_CleanCallIsSafe ==
  pc = "done" =>
    \A n \in DOMAIN modelUsage :
      (\E f \in DOMAIN fileCache :
          /\ ~isClientFile(f)
          /\ Contains(fileCache[f].clean, DbCalls(n)))
        => modelUsage[n].riskLevel = "SAFE"

\* a call that survives next to a suppressed region and to medium evidence
C4_Witness ==
  /\ pc = "done"
  /\ ServerFile \in DOMAIN fileCache
  /\ Contains(fileCache[ServerFile].clean, DbCalls("Widget"))
  /\ fileCache[ServerFile].clean # fileCache[ServerFile].raw
  /\ modelUsage["Widget"].fileAnalyses # << >>
  /\ modelUsage["Widget"].riskLevel = "SAFE"

\* C5: a model is DEFINITELY_UNUSED exactly if no file produced a
\* FileAnalysis for it, and then its confidence, tag set and file counts
\* are all empty.
C5_DefinitelyUnusedIffNoAnalysis ==
  \A n \in DOMAIN modelUsage :
    LET u == modelUsage[n]
    IN  /\ (u.riskLevel = "DEFINITELY_UNUSED") <=> (u.fileAnalyses = << >>)
        /\ u.riskLevel = "DEFINITELY_UNUSED" =>
             /\ u.totalConfidence = 0
             /\ u.usageTypes = {}
             /\ u.totalFiles = 0
             /\ u.serverFiles = 0
             /\ u.clientFiles = 0

\* one model without any analysis on a disk that mentions the other model
C5_Witness ==
  /\ pc = "done"
  /\ modelUsage["Order"].riskLevel = "DEFINITELY_UNUSED"
  /\ modelUsage["Order"].fileAnalyses = << >>
  /\ Len(modelUsage["Widget"].fileAnalyses) = 2

\* the weight of a tier
WeightOf(type) ==
  CASE type = "DATABASE_OPERATION" -> 40
    [] type = "API_ENDPOINT" -> 35
    [] type = "TYPE_DEFINITION" -> 25
    [] type = "BUSINESS_LOGIC" -> 20
    [] type = "CLIENT_OPERATION" -> 20
    [] type = "SCHEMA_REFERENCE" -> 15
    [] type = "WEAK_INDICATOR" -> 2

\* the sum of the weights of a set of tiers
RECURSIVE SumWeights(_)
SumWeights(types) ==
  IF types = {} THEN 0
  ELSE LET t == CHOOSE x \in types : TRUE
       IN  WeightOf(t) + SumWeights(types \ {t})

C7_NoEmptyAnalysis ==
  /\ \A a \in StoredAnalyses :
       /\ a.usageTypes # {}
       /\ a.confidence > 0
       /\ a.usageCount > 0
  /\ \A n \in DOMAIN modelUsage : \A f \in Files :
       (\E i \in 1..Len(modelUsage[n].fileAnalyses) :
           modelUsage[n].fileAnalyses[i].file = f)
         => /\ disk[f].readable
            /\ Contains(disk[f].content, Mentions(n))

\* a model with an analysis for one file and none for the other, readable one
C7_Witness ==
  /\ pc = "done"
  /\ Len(modelUsage["Widget"].fileAnalyses) = 1
  /\ modelUsage["Widget"].fileAnalyses[1].file = ClientFile
  /\ disk[ServerFile].readable
  /\ Contains(disk[ServerFile].content, Mentions("Widget"))

\* C8: the totals of a ModelUsage are the plain sums and union over its
\* FileAnalysis records.
C8_TotalsAreSums ==
  \A u \in Entries :
    /\ u.totalConfidence =
         SumSeq([i \in 1..Len(u.fileAnalyses) |-> u.fileAnalyses[i].confidence])
    /\ u.usageTypes =
         UNION {u.fileAnalyses[i].usageTypes : i \in 1..Len(u.fileAnalyses)}
    /\ u.totalFiles = u.serverFiles + u.clientFiles
    /\ u.totalFiles = Len(u.fileAnalyses)
    /\ u.serverFiles =
         Cardinality({i \in 1..Len(u.fileAnalyses) : ~u.fileAnalyses[i].isClientFile})

\* two files add up to more than 100
C8_Witness ==
  /\ pc = "done"
  /\ Len(modelUsage["Widget"].fileAnalyses) = 2
  /\ modelUsage["Widget"].totalConfidence > 100
  /\ modelUsage["Widget"].serverFiles = 1
  /\ modelUsage["Widget"].clientFiles = 1

\* position i of text lies in a line comment: a // stands before it on its
\* line and nothing before it opens a block comment or a string
InLineComment(text, i) ==
  /\ \E j \in 1..(i - 1) : text[j] = LC /\ \A k \in j..i : text[k] # NL
  /\ \A j \in 1..(i - 1) : text[j] \notin Openers

\* model n is named on the disk, and only inside line comments
OnlyInLineComments(n) ==
  /\ \E f \in Files : disk[f].readable /\ Contains(disk[f].content, Mentions(n))
  /\ \A f \in Files : disk[f].readable =>
       \A i \in 1..Len(disk[f].content) :
         disk[f].content[i] \in Mentions(n) => InLineComment(disk[f].content, i)

\* no SCHEMA_REFERENCE pattern for model n matches the raw text of a file
NoSchemaMatch(n) ==
  \A f \in Files : disk[f].readable =>
    \A i \in 1..7 : configPatterns(n, disk[f].content)[i] = 0

\* C9 as stated: a model named only inside line comments, whatever else the
\* comments say, gets no FileAnalysis and is DEFINITELY_UNUSED.
C9_CommentOnlyIsUnused ==
  pc = "done" =>
    \A n \in DOMAIN modelUsage :
      OnlyInLineComments(n) =>
        /\ modelUsage[n].fileAnalyses = << >>
        /\ modelUsage[n].totalConfidence = 0
        /\ modelUsage[n].usageTypes = {}
        /\ modelUsage[n].riskLevel = "DEFINITELY_UNUSED"

\* C9 amended: a model named only inside line comments gets no FileAnalysis
\* and is DEFINITELY_UNUSED, provided no SCHEMA_REFERENCE pattern, which is
\* matched against the raw text, matches a comment that names it.
C9_PlainCommentOnlyIsUnused ==
  pc = "done" =>
    \A n \in DOMAIN modelUsage :
      OnlyInLineComments(n) /\ NoSchemaMatch(n) =>
        /\ modelUsage[n].fileAnalyses = << >>
        /\ modelUsage[n].totalConfidence = 0
        /\ modelUsage[n].usageTypes = {}
        /\ modelUsage[n].riskLevel = "DEFINITELY_UNUSED"

\* a commented name in one file and a schema keyword in the other
C9_Witness ==
  /\ pc = "done"
  /\ OnlyInLineComments("Widget")
  /\ NoSchemaMatch("Widget")
  /\ Contains(disk[ClientFile].content, {SEED})
  /\ Contains(disk[ServerFile].content, {LC})
  /\ modelUsage["Widget"].riskLevel = "DEFINITELY_UNUSED"

\* file f is one bare import of model n and no other file names n
ImportOnly(n, f) ==
  /\ disk[f].readable
  /\ disk[f].content \in ImportLines
  /\ disk[f].content[2] = <<"name", n>>
  /\ \A g \in Files \ {f} : ~Contains(disk[g].content, Mentions(n))

\* the result C10 states for the import of model n in file f
ImportResult(n, f) ==
  /\ Len(modelUsage[n].fileAnalyses) = 1
  /\ modelUsage[n].fileAnalyses[1].file = f
  /\ modelUsage[n].fileAnalyses[1].usageTypes = {"WEAK_INDICATOR"}
  /\ modelUsage[n].totalConfidence < 20 => modelUsage[n].riskLevel = "LIKELY_UNUSED"

\* C10 as stated: a model referenced only through a bare import, whatever
\* the path, gets the tag set {WEAK_INDICATOR} for the file and, below a
\* total confidence of 20, is LIKELY_UNUSED.
C10_ImportOnlyIsWeak ==
  pc = "done" =>
    \A n \in DOMAIN modelUsage : \A f \in Files :
      ImportOnly(n, f) => ImportResult(n, f)

\* C10 amended: the same, provided no SCHEMA_REFERENCE pattern matches the
\* raw import line (a path that holds "seed" matches one).
C10_PlainImportOnlyIsWeak ==
  pc = "done" =>
    \A n \in DOMAIN modelUsage : \A f \in Files :
      ImportOnly(n, f) /\ NoSchemaMatch(n) => ImportResult(n, f)

\* an import in a client file next to a server file of other text
C10_Witness ==
  /\ pc = "done"
  /\ ImportOnly("Widget", ClientFile)
  /\ NoSchemaMatch("Widget")
  /\ disk[ServerFile].content # << >>
  /\ modelUsage["Widget"].totalConfidence = 4
  /\ modelUsage["Widget"].riskLevel = "LIKELY_UNUSED"

\* the usage records of the enhanced analyzer that exist, model by model:
\* the classified ones and the one in progress
EnhancedEntries ==
  {usedModels[n] : n \in DOMAIN usedModels}
    \cup {suspiciousModels[n] : n \in DOMAIN suspiciousModels}
    \cup (IF eCur = Null THEN {} ELSE {eCur})

\* the groups that matched for a usage record of the enhanced analyzer
TriggeredGroups(u) ==
  UNION {{d.usages[i].type : i \in 1..Len(d.usages)} :
           d \in Range(u.serverUsages) \cup Range(u.clientUsages)}

NamingAtoms(n) == {<<"props", n>>, <<"state", n>>}

\* number of occurrences of <n>Props / <n>State in the client files
NamingOccurrences(n) ==
  SumSeq([i \in 1..Len(allFiles) |->
            IF isClientFile(allFiles[i]) /\ disk[allFiles[i]].readable
            THEN CountAtoms(cleanContent(disk[allFiles[i]].content), NamingAtoms(n))
            ELSE 0])

\* the pairs of a client file and one of the two names that occurs in it
NamingPairs(n) ==
  {<<f, a>> \in (DOMAIN disk) \X NamingAtoms(n) :
     /\ isClientFile(f)
     /\ disk[f].readable
     /\ Contains(cleanContent(disk[f].content), {a})}

\* no DATABASE_OPERATION or API_ENDPOINT match for model n in any file
NoStrongMatch(n) == modelUsage[n].usageTypes \cap StrongTags = {}

\* C12 as stated: a model with 3 occurrences of <Model>Props / <Model>State in
\* client files and no DATABASE_OPERATION or API_ENDPOINT match has a total
\* confidence of 30 or more and is PROBABLY_SAFE, however the occurrences
\* are distributed.
C12_ThreeNamingsProbablySafe ==
  pc = "done" =>
    \A n \in DOMAIN modelUsage :
      NamingOccurrences(n) = 3 /\ NoStrongMatch(n) =>
        /\ modelUsage[n].totalConfidence >= 30
        /\ modelUsage[n].riskLevel = "PROBABLY_SAFE"

\* C12 amended: the naming patterns are CLIENT_OPERATION patterns, and each
\* pair of a client file and a name that occurs in it adds 20 once.  With 3
\* occurrences and no strong match, two or more pairs give a confidence of
\* 40 or more and PROBABLY_SAFE; one pair gives CLIENT_OPERATION with 20,
\* and the model is PROBABLY_SAFE only if other matches lift the total to 30,
\* SUSPICIOUS otherwise.
C12_NamingPairsDecide ==
  pc = "done" =>
    \A n \in DOMAIN modelUsage :
      NamingOccurrences(n) = 3 /\ NoStrongMatch(n) =>
        /\ "CLIENT_OPERATION" \in modelUsage[n].usageTypes
        /\ "TYPE_DEFINITION" \notin modelUsage[n].usageTypes
        /\ modelUsage[n].totalConfidence >= 20 * Cardinality(NamingPairs(n))
        /\ Cardinality(NamingPairs(n)) >= 2 =>
             modelUsage[n].riskLevel = "PROBABLY_SAFE"
        /\ Cardinality(NamingPairs(n)) = 1 =>
             modelUsage[n].riskLevel =
               (IF modelUsage[n].totalConfidence >= 30
                THEN "PROBABLY_SAFE" ELSE "SUSPICIOUS")
        /\ (Cardinality(NamingPairs(n)) = 1
              /\ modelUsage[n].usageTypes = {"CLIENT_OPERATION"}) =>
             /\ modelUsage[n].totalConfidence = 20
             /\ modelUsage[n].riskLevel = "SUSPICIOUS"

\* three occurrences of one name in one client file: 20 and SUSPICIOUS
C12_Witness ==
  /\ pc = "done"
  /\ NamingOccurrences("Widget") = 3
  /\ Cardinality(NamingPairs("Widget")) = 1
  /\ modelUsage["Widget"].usageTypes = {"CLIENT_OPERATION"}
  /\ modelUsage["Widget"].totalConfidence = 20
  /\ modelUsage["Widget"].riskLevel = "SUSPICIOUS"

\* the report has been generated
Reported == pc \in {"exportResults", "exit", "exited"} /\ exitStatus # "failure"

\* the models whose block declares a relation whose target is model n
DeclaredReferrers(n) ==
  {schema.blocks[i].name : i \in {i \in 1..Len(schema.blocks) :
      \E j \in 1..Len(schema.blocks[i].fields) :
        /\ schema.blocks[i].fields[j].relation
        /\ schema.blocks[i].fields[j].type = n}}

AtRiskLevels == {"SUSPICIOUS", "LIKELY_UNUSED", "DEFINITELY_UNUSED"}

\* the audit entries of model n
AuditEntries(n) ==
  {i \in 1..Len(relationshipAudit) : relationshipAudit[i].model = n}

\* C13: for every at-risk model M the referencing list of the audit is
\* exactly the set of the models other than M that declare a relation whose
\* target is M: single hop, never M itself, each model once.
C13_ReferencingListIsSingleHop ==
  Reported =>
    \A n \in DOMAIN modelUsage :
      modelUsage[n].riskLevel \in AtRiskLevels =>
        /\ AuditEntries(n) # {}
        /\ \A i \in AuditEntries(n) :
             LET list == relationshipAudit[i].relatedModels
             IN  /\ Range(list) = DeclaredReferrers(n) \ {n}
                 /\ Len(list) = Cardinality(Range(list))

\* an at-risk model with a relation to itself, referenced by a second model
\* through a relation, while the third model only has a field of its type
C13_Witness ==
  /\ Reported
  /\ "Widget" \in DeclaredReferrers("Widget")
  /\ \E i \in AuditEntries("Widget") :
       relationshipAudit[i].relatedModels = <<"Order">>
  /\ \E j \in 1..Len(schema.blocks[1].fields) :
       /\ schema.blocks[1].fields[j].type = "Widget"
       /\ schema.blocks[1].fields[j].relation

\* C14: the audit has one entry for each model that is SUSPICIOUS,
\* LIKELY_UNUSED or DEFINITELY_UNUSED and none for the others, and the
\* danger flag of an entry is set exactly if a model of its referencing
\* list is SAFE or PROBABLY_SAFE.
C14_DangerIffUsedReferrer ==
  Reported =>
    /\ \A n \in DOMAIN modelUsage :
         Cardinality(AuditEntries(n)) =
           (IF modelUsage[n].riskLevel \in AtRiskLevels THEN 1 ELSE 0)
    /\ \A i \in 1..Len(relationshipAudit) :
         /\ relationshipAudit[i].model \in DOMAIN modelUsage
         /\ relationshipAudit[i].danger <=>
              \E o \in Range(relationshipAudit[i].relatedModels) :
                modelUsage[o].riskLevel \in {"SAFE", "PROBABLY_SAFE"}

\* Order is DEFINITELY_UNUSED and referenced by Invoice, which is SAFE, and
\* by Widget, which is itself at risk
C14_Witness ==
  /\ Reported
  /\ DOMAIN modelUsage = Range(AuditNames)
  /\ modelUsage["Order"].riskLevel = "DEFINITELY_UNUSED"
  /\ modelUsage["Invoice"].riskLevel = "SAFE"
  /\ modelUsage["Widget"].riskLevel = "SUSPICIOUS"
  /\ \E i \in AuditEntries("Order") :
       /\ relationshipAudit[i].relatedModels = <<"Widget", "Invoice">>
       /\ relationshipAudit[i].safeRelations = <<"Invoice">>
       /\ relationshipAudit[i].danger
  /\ \E i \in AuditEntries("Widget") : ~relationshipAudit[i].danger

\* C19: a schema that is readable but holds no model declaration ends the
\* run with a failure exit status, with no analysis, report or export.
C19_UnparsableSchemaAborts ==
  (schema.readable /\ schema.blocks = << >> /\ pc = "exited") =>
    /\ exitStatus = "failure"
    /\ modelUsage = << >> /\ allFiles = << >>
    /\ ~exported

\* C15: a second analyzeAllModels on the same analyzer, on the cache the
\* first one filled and with schema and files unchanged, leaves for every
\* model the ModelUsage the first one computed.
C15_WarmCacheSameUsage ==
  run = 2 =>
    /\ \A n \in DOMAIN modelUsage : modelUsage[n] = firstUsage[n]
    /\ pc = "done" => modelUsage = firstUsage

\* the second run has ended on a cache that holds a file whose clean text
\* differs from its raw text, with a model found in a file, and no file was
\* read again
C15_Witness ==
  /\ run = 2
  /\ pc = "done"
  /\ \E f \in DOMAIN fileCache : fileCache[f].raw # fileCache[f].clean
  /\ \E n \in DOMAIN modelUsage : modelUsage[n].totalFiles > 0
  /\ \A f \in DOMAIN fileCache : reads[f] = 1

\* C16: within one run fs.readFileSync is called at most once for every
\* file path, whether the first read succeeded or failed.
C16_EachPathReadOnce ==
  \A f \in DOMAIN reads : reads[f] <= 1

\* the files of the disk that can be read, in search order
ReadableFiles ==
  SelectSeq(SearchOrder, LAMBDA f : f \in DOMAIN disk /\ disk[f].readable)

\* the ModelUsage of model m computed from the files of list files alone,
\* from file i on
RECURSIVE UsageOver(_, _, _)
UsageOver(usage, files, i) ==
  IF i > Len(files) THEN usage
  ELSE LET content == disk[files[i]].content
           analysis == analyzeModelUsage(usage.model.name, files[i],
                         [raw |-> content, clean |-> cleanContent(content)])
       IN  UsageOver(IF analysis # Null THEN foldAnalysis(usage, analysis)
                     ELSE usage, files, i + 1)

ModelUsageOver(m, files) ==
  LET u == UsageOver([model |-> m, totalFiles |-> 0, serverFiles |-> 0,
                      clientFiles |-> 0, totalConfidence |-> 0,
                      usageTypes |-> {}, fileAnalyses |-> << >>,
                      isReallyUsed |-> FALSE, riskLevel |-> "UNKNOWN"],
                     files, 1)
      r == riskAssessment(u.usageTypes, u.totalConfidence)
  IN  [u EXCEPT !.isReallyUsed = r.isReallyUsed,
                !.riskLevel = r.riskLevel,
                !.fileAnalyses = SortByConfidence(@)]

\* the usage record of the enhanced analyzer for model name n computed from
\* the files of list files alone, from file i on
RECURSIVE EnhancedUsageOver(_, _, _, _)
EnhancedUsageOver(rec, n, files, i) ==
  IF i > Len(files) THEN rec
  ELSE LET usage == analyzeModelUsageInFile(files[i], n, disk[files[i]])
       IN  EnhancedUsageOver(IF usage # Null THEN foldUsage(rec, usage) ELSE rec,
                             n, files, i + 1)

EnhancedRecordOver(n, files) ==
  EnhancedUsageOver([realUsages |-> << >>, suspiciousUsages |-> << >>,
                     serverUsages |-> << >>, clientUsages |-> << >>,
                     totalFiles |-> 0, isReallyUsed |-> FALSE], n, files, 1)

\* C17: a file that cannot be read does not end the run, gives no file
\* analysis for any model, and leaves the results of both analyzers as they
\* are computed from the file list without it.
C17_ReadFailureIsLocal ==
  /\ (schema.readable /\ pc = "exited") =>
       /\ exitStatus = "success"
       /\ DOMAIN modelUsage = {models[i].name : i \in 1..Len(models)}
       /\ \A i \in 1..Len(models) :
            modelUsage[models[i].name] = ModelUsageOver(models[i], ReadableFiles)
  /\ \A n \in DOMAIN modelUsage :
       \A i \in 1..Len(modelUsage[n].fileAnalyses) :
         disk[modelUsage[n].fileAnalyses[i].file].readable
  /\ (schema.readable /\ ePc = "exited") =>
       /\ eExit = "success"
       /\ \A i \in 1..Len(eModels) :
            LET n == eModels[i]
                rec == EnhancedRecordOver(n, ReadableFiles)
            IN  IF rec.isReallyUsed
                THEN n \in DOMAIN usedModels /\ usedModels[n] = rec
                     /\ n \notin DOMAIN suspiciousModels /\ n \notin unusedModels
                ELSE IF rec.totalFiles > 0
                THEN n \in DOMAIN suspiciousModels /\ suspiciousModels[n] = rec
                     /\ n \notin DOMAIN usedModels /\ n \notin unusedModels
                ELSE n \in unusedModels /\ n \notin DOMAIN usedModels
                     /\ n \notin DOMAIN suspiciousModels

\* both analyzers have ended a run in which the client file could not be
\* read and the server file holds a database call for Widget
C17_Witness ==
  /\ pc = "exited" /\ exitStatus = "success"
  /\ ePc = "exited" /\ eExit = "success"
  /\ ~disk[ClientFile].readable
  /\ reads[ClientFile] > 0
  /\ modelUsage["Widget"].totalFiles = 1
  /\ modelUsage["Widget"].riskLevel = "SAFE"
  /\ "Widget" \in DOMAIN usedModels
  /\ usedModels["Widget"].totalFiles = 1
  /\ "Order" \in unusedModels

\* C18: when the schema file cannot be read both analyzers end with a
\* failure exit status before any source file is looked at: no file is
\* listed or read, there is no ModelUsage entry, no relationship audit and
\* no exported report.
C18_UnreadableSchemaAborts ==
  ~schema.readable =>
    /\ pc \in {"parsePrismaSchema", "exited"}
    /\ pc = "exited" => exitStatus = "failure"
    /\ exitStatus # "success"
    /\ models = << >> /\ modelUsage = << >> /\ cur = Null
    /\ allFiles = << >> /\ fileCache = << >>
    /\ \A f \in DOMAIN reads : reads[f] = 0
    /\ relationshipAudit = << >>
    /\ ~exported
    /\ ePc \in {"parsePrismaSchema", "exited"}
    /\ ePc = "exited" => eExit = "failure"
    /\ eExit # "success"
    /\ eModels = << >> /\ eAllFiles = << >> /\ eCur = Null
    /\ usedModels = << >> /\ suspiciousModels = << >> /\ unusedModels = {}

\* both analyzers have ended on an unreadable schema, with a source tree
\* that holds a database call
C18_Witness ==
  /\ ~schema.readable
  /\ pc = "exited" /\ exitStatus = "failure"
  /\ ePc = "exited" /\ eExit = "failure"
  /\ disk[ServerFile].readable
  /\ disk[ServerFile].content = <<<<"dbcall", "Widget">>>>

\* text holds, in code, a route registration or an outbound call whose
\* quoted path contains the name of model n
HasQuotedRoute(text, n) ==
  \E i \in 1..(Len(text) - 3) :
    /\ text[i] \in {ROUTE, FETCH}
    /\ IsCode(text, i)
    /\ text[i + 1] \in Quotes
    /\ text[i + 2] = <<"apipath", n>>
    /\ text[i + 3] = text[i + 1]

\* C20: a file, of either area, with a route registration or an outbound
\* HTTP call whose quoted path contains the model name triggers the
\* API_ENDPOINT tier for the model, and the model is SAFE.
C20_QuotedRouteIsApiEndpoint ==
  pc = "done" =>
    \A n \in DOMAIN modelUsage :
      (\E f \in DOMAIN disk :
          disk[f].readable /\ HasQuotedRoute(disk[f].content, n))
        => /\ "API_ENDPOINT" \in modelUsage[n].usageTypes
           /\ modelUsage[n].riskLevel = "SAFE"

\* path f lies under directory root
LiesUnder(f, root) ==
  /\ startsWith(f, root)
  /\ Len(f) > Len(root)
  /\ f[Len(root) + 1] \notin {"-api"}

\* the file analyses of the comprehensive analyzer that exist
FileAnalyses ==
  UNION {Range(modelUsage[n].fileAnalyses) : n \in DOMAIN modelUsage}
    \cup (IF cur = Null THEN {} ELSE Range(cur.fileAnalyses))

\* C21: a file analysis of a client-area file never has the tag
\* DATABASE_OPERATION, one of a server-area file never has CLIENT_OPERATION,
\* a file is client-area exactly if its path lies under the client root, and
\* every file found under the server root is server-area.
C21_TiersFollowArea ==
  \A a \in FileAnalyses :
    /\ a.isClientFile => "DATABASE_OPERATION" \notin a.usageTypes
    /\ ~a.isClientFile => "CLIENT_OPERATION" \notin a.usageTypes
    /\ a.isClientFile <=> LiesUnder(a.file, clientPath)
    /\ LiesUnder(a.file, serverPath) => ~a.isClientFile

\* the atom that ends the comment or string literal an atom opens
CODE == <<"code", "">>
CloserOf(a) ==
  IF a \in {LC, HASH} THEN NL
  ELSE IF a = BO THEN BC
  ELSE IF a = HO THEN HC
  ELSE a

\* the positions of text from i on that lie in a comment or in a string
\* literal, delimiters included, for a reader that goes through the text
\* once from left to right; closer is the atom that ends the region position
\* i is in, CODE if it is in none
RECURSIVE SuppressedFrom(_, _, _)
SuppressedFrom(text, i, closer) ==
  IF i > Len(text) THEN {}
  ELSE IF closer = CODE
       THEN IF text[i] \in Openers \cup {LC, HASH}
            THEN {i} \cup SuppressedFrom(text, i + 1, CloserOf(text[i]))
            ELSE SuppressedFrom(text, i + 1, CODE)
       ELSE IF text[i] = closer
            THEN (IF closer = NL THEN {} ELSE {i})
                   \cup SuppressedFrom(text, i + 1, CODE)
            ELSE {i} \cup SuppressedFrom(text, i + 1, closer)

\* text names model n, and only inside comments and string literals
OnlySuppressedMentions(text, n) ==
  /\ Contains(text, Mentions(n))
  /\ \A i \in 1..Len(text) :
       text[i] \in Mentions(n) => i \in SuppressedFrom(text, 1, CODE)

\* number of SCHEMA_REFERENCE patterns that match text for model n
SchemaMatches(text, n) ==
  Cardinality({i \in 1..7 : configPatterns(n, text)[i] > 0})

\* C22: a seed, relation or DDL keyword with the model name inside a comment
\* or a string literal gives the file the tag SCHEMA_REFERENCE, 15 for each
\* matching pattern, and no tag of a tier that is matched on clean text.
C22_SuppressedKeywordIsSchemaOnly ==
  pc = "done" =>
    \A n \in DOMAIN modelUsage : \A f \in DOMAIN disk :
      ( /\ disk[f].readable
        /\ OnlySuppressedMentions(disk[f].content, n)
        /\ SchemaMatches(disk[f].content, n) > 0 ) =>
        \E i \in 1..Len(modelUsage[n].fileAnalyses) :
          LET a == modelUsage[n].fileAnalyses[i]
          IN  /\ a.file = f
              /\ a.usageTypes = {"SCHEMA_REFERENCE"}
              /\ a.confidence = 15 * SchemaMatches(disk[f].content, n)

\* text holds two halves of a name with nothing between them
Joined(text) ==
  \E i \in 1..Len(text) : \E k \in (i + 2)..Len(text) :
    /\ text[i][1] = "head"
    /\ text[k][1] = "tail"
    /\ \A j \in (i + 1)..(k - 1) : text[j] = JOIN

\* C23: in both analyzers a comment is replaced by a blank and never
\* deleted: two tokens that only a comment separates in the file are not
\* joined in the text the patterns are matched against, and the name they
\* would spell is not found.
C23_CommentsBecomeBlanks ==
  /\ \A f \in DOMAIN fileCache :
       ~Joined(fileCache[f].raw) => ~Joined(fileCache[f].clean)
  /\ \A f \in Range(eAllFiles) :
       (ePc = "exited" /\ disk[f].readable /\ ~Joined(disk[f].content)) =>
         ~Joined(contentWithoutComments(disk[f].content))
  /\ \A n \in DOMAIN modelUsage \cup DOMAIN usedModels \cup DOMAIN suspiciousModels :
       (\A f \in DOMAIN disk : ~Contains(disk[f].content, Mentions(n))) =>
         /\ n \in DOMAIN modelUsage => modelUsage[n].fileAnalyses = << >>
         /\ n \notin DOMAIN usedModels
         /\ n \notin DOMAIN suspiciousModels

\* C24: the clean text of a file has as many line breaks as its raw text.
C24_CleanKeepsLineBreaks ==
  \A f \in DOMAIN fileCache :
    CountAtoms(fileCache[f].clean, {NL}) = CountAtoms(fileCache[f].raw, {NL})

\* the usage details the enhanced analyzer has recorded so far
EnhancedUsages ==
  (IF eCur = Null THEN {} ELSE Range(eCur.serverUsages) \cup Range(eCur.clientUsages))
  \cup UNION {Range(usedModels[n].serverUsages) \cup Range(usedModels[n].clientUsages) :
               n \in DOMAIN usedModels}
  \cup UNION {Range(suspiciousModels[n].serverUsages)
               \cup Range(suspiciousModels[n].clientUsages) :
               n \in DOMAIN suspiciousModels}

\* the matches usage details u records for the group named type, over all
\* patterns of the group
MatchesOf(u, type) ==
  SumSeq([i \in 1..Len(u.usages) |->
            IF u.usages[i].type = type THEN u.usages[i].count ELSE 0])

\* the groups that mark real usage on their first match
StrongGroups == {"DATABASE_OPERATION", "API_ENDPOINT", "CLIENT_OPERATION"}

\* usage details u record no match of a group of StrongGroups
NoStrongGroupMatch(u) == \A t \in StrongGroups : MatchesOf(u, t) = 0

\* C25: in the enhanced analyzer the BUSINESS_LOGIC group marks a file as
\* real usage if and only if the group has at least 2 matches in the file,
\* counted over all patterns of the group together.
C25_BusinessLogicGateOverTier ==
  \A u \in EnhancedUsages :
    NoStrongGroupMatch(u) => (u.isRealUsage <=> MatchesOf(u, "BUSINESS_LOGIC") >= 2)

\* the groups of medium evidence: client idioms and business-logic naming
MediumGroups == {"CLIENT_OPERATION", "BUSINESS_LOGIC"}

\* C26: in the enhanced analyzer medium evidence (client idioms such as
\* <Model>Props, business-logic and type naming) never marks a file as real
\* usage on a single match: a file that is real usage without a database or
\* API match has at least 2 matches of medium evidence.
C26_NoSingleMediumMatchIsReal ==
  \A u \in EnhancedUsages :
    (/\ u.isRealUsage
     /\ MatchesOf(u, "DATABASE_OPERATION") = 0
     /\ MatchesOf(u, "API_ENDPOINT") = 0) =>
      \E t \in MediumGroups : MatchesOf(u, t) >= 2

\* both analyzers have run to their end on the schema and the files
BothDone ==
  /\ pc = "exited" /\ exitStatus = "success"
  /\ ePc = "exited" /\ eExit = "success"

\* C27: run on the same models and the same files, every model the enhanced
\* analyzer puts in usedModels is SAFE or PROBABLY_SAFE for the
\* comprehensive analyzer.
C27_UsedModelsAreSafe ==
  BothDone =>
    \A n \in DOMAIN usedModels :
      modelUsage[n].riskLevel \in {"SAFE", "PROBABLY_SAFE"}

\* C28: within one run every model is analysed against the same content of
\* each file: getFileContent returns one and the same (raw, clean) pair for a
\* path, whatever happens to the file on disk during the run.
C28_OnePairPerPath ==
  \A f \in DOMAIN obtained : Cardinality(obtained[f]) <= 1

\* the place of a risk level in the order from unused to safe
RiskRank(level) ==
  CASE level = "SAFE" -> 5
    [] level = "PROBABLY_SAFE" -> 4
    [] level = "SUSPICIOUS" -> 3
    [] level = "LIKELY_UNUSED" -> 2
    [] level = "DEFINITELY_UNUSED" -> 1

\* the list files without its i-th file
Without(files, i) == SubSeq(files, 1, i - 1) \o SubSeq(files, i + 1, Len(files))

\* the result for the model of usage record more, computed from the scanned
\* files without the i-th
WithoutFile(more, i) == ModelUsageOver(more.model, Without(allFiles, i))

\* C29: for every model, the result over the scanned files compared with
\* the result over the same files without one of them has at least the total
\* confidence, every usage-type tag, and a risk level that is not nearer to
\* unused.
C29_EvidenceIsMonotone ==
  \A n \in DOMAIN modelUsage : \A i \in 1..Len(allFiles) :
    LET more == modelUsage[n]
        less == WithoutFile(more, i)
    IN  /\ less.totalConfidence <= more.totalConfidence
        /\ less.usageTypes \subseteq more.usageTypes
        /\ RiskRank(less.riskLevel) <= RiskRank(more.riskLevel)

\* a model with evidence in two files, one of which lifts its level and adds
\* a tag
C29_Witness ==
  \E n \in DOMAIN modelUsage : \E i \in 1..Len(allFiles) :
    LET more == modelUsage[n]
        less == WithoutFile(more, i)
    IN  /\ less.totalFiles = 1 /\ more.totalFiles = 2
        /\ less.totalConfidence < more.totalConfidence
        /\ less.usageTypes # more.usageTypes
        /\ RiskRank(less.riskLevel) < RiskRank(more.riskLevel)

\* analyzeUsage has returned and the report has been written
EnhancedDone == ePc = "exited" /\ eExit = "success"

\* some file of the file list gives a usage record for model n / a usage
\* record that is real usage
MentionedInSomeFile(n) ==
  \E f \in Range(eAllFiles) : analyzeModelUsageInFile(f, n, disk[f]) # Null
RealUsageInSomeFile(n) ==
  \E f \in Range(eAllFiles) :
    LET usage == analyzeModelUsageInFile(f, n, disk[f])
    IN  usage # Null /\ usage.isRealUsage

\* C30: after analyzeUsage the three collections are pairwise disjoint and
\* hold every schema model exactly once: usedModels the models with real
\* usage in some file, suspiciousModels the models some file gives a usage
\* record for but none with real usage, unusedModels the models no file
\* gives a usage record for; the counts of the summary add up to the number
\* of models.
C30_ThreeWayPartition ==
  EnhancedDone =>
    /\ DOMAIN usedModels \cap DOMAIN suspiciousModels = {}
    /\ DOMAIN usedModels \cap unusedModels = {}
    /\ DOMAIN suspiciousModels \cap unusedModels = {}
    /\ DOMAIN usedModels \cup DOMAIN suspiciousModels \cup unusedModels
         = Range(eModels)
    /\ Cardinality(DOMAIN usedModels) + Cardinality(DOMAIN suspiciousModels)
         + Cardinality(unusedModels) = Cardinality(Range(eModels))
    /\ \A n \in Range(eModels) :
         /\ n \in DOMAIN usedModels <=> RealUsageInSomeFile(n)
         /\ n \in DOMAIN suspiciousModels <=>
              (MentionedInSomeFile(n) /\ ~RealUsageInSomeFile(n))
         /\ n \in unusedModels <=> ~MentionedInSomeFile(n)

\* a finished run with a used model and a suspicious model
C30_Witness ==
  /\ EnhancedDone
  /\ DOMAIN usedModels # {}
  /\ DOMAIN suspiciousModels # {}

====
